---- MODULE Spec2Model ----
(***************************************************************************)
(* Model of the ingestion / synchronisation core of creative-testing/      *)
(* insights:                                                               *)
(*   - AsyncRateLimitMonitor and MetaClient._request_with_retry            *)
(*     (src/api/app/services/meta_client.py)                               *)
(*   - _determine_refresh_mode, _upsert_daily_ads and sync_account_data    *)
(*     (src/api/app/services/refresher.py)                                 *)
(*                                                                         *)
(* Percentages and minutes are integers.  A header is a record             *)
(* [present, json_ok, ...]: present = the header string is non-empty,      *)
(* json_ok = json.loads succeeds and yields the expected container.        *)
(***************************************************************************)
EXTENDS Integers, Sequences, FiniteSets, TLC

VARIABLES
    \* ---- AsyncRateLimitMonitor (meta_client.py:37-40)
    usage_by_account,   \* account_id -> snapshot (NoSnapshot when the key is absent)
    global_usage,       \* self.global_usage
    lock,               \* self._lock: NoClient when free, else the coroutine holding it
    sleeps_on,          \* history: per key, pauses taken on the dict now stored under it
    \* ---- one parse_headers call on drawn inputs
    parsed_pcts,        \* history: every usage_percent a parse_headers call produced
    headers,            \* the response headers handed to parse_headers
    account_id,         \* the account_id argument
    parse_out,          \* "pending" | "returned" | "raised"
    n_parses,           \* parse_headers calls made so far
    \* ---- MetaClient._request_with_retry, one call per coroutine
    lock_waiters,       \* coroutines queued on self._lock, in arrival order
    pc,                 \* where each coroutine stands
    req,                \* the call's arguments [attempts, account_id]
    attempt,            \* the loop variable
    held,               \* the dict check_and_throttle read before sleeping is still
                        \* the one stored under its key (no parse replaced it since)
    throttled,          \* what the last check_and_throttle call returned
    result,             \* how the call ended
    last_outcome,       \* how the latest attempt ended
    retryable_only,     \* history: every attempt so far ended in a 5xx, a 429,
                        \* a ConnectError or a ReadTimeout
    n_requests,         \* history: HTTP requests issued by the call
    n_backoffs,         \* history: backoff sleeps taken by the call
    n_checks,           \* history: check_and_throttle calls made by the call
    n_parsed,           \* history: responses the call handed to parse_headers
    last_status,        \* history: status of the response to the latest attempt, 0 without one
    \* ---- _upsert_daily_ads on drawn inputs
    existing_ads,       \* the existing_ads argument
    new_ads,            \* the new_ads argument
    reference_date,     \* the reference_date argument
    merged,             \* the list the latest call returned
    merged_once,        \* the list the first call returned
    upsert_calls,       \* calls made so far
    \* ---- sync_account_data, one run after the other for one (tenant, account)
    store,              \* the Durable Store: raw dataset, three shards, manifest
    sync_pc,            \* where the run stands
    run_no,             \* runs started so far
    today,              \* datetime.now(timezone.utc).date() of the run
    existing_baseline,  \* what _load_existing_baseline returned
    refresh_mode,       \* "BASELINE" | "TAIL"
    days_to_fetch,
    chunk_start,        \* start of the next sub-window of a chunked fetch
    daily_insights,     \* rows fetched so far
    all_daily_ads,      \* rows after step 10
    files_written,      \* names appended as the writes succeed
    sync_error,         \* "" or the exception the run raised
    store_before,       \* history: the store when the run started
    calls,              \* history: the store and provider calls the run made, in order
    \* ---- MetaClient.enrich_ads_with_creatives, one call
    input_ads,          \* the ads argument: the ad_id of each row (NoAdId: no 'ad_id')
    ad_ids,             \* list(set(...)): the distinct ad_ids in some order
    batches,            \* ad_ids cut in slices
    batch_chunk_start,  \* the loop variable chunk_start
    in_flight,          \* batches whose fetch_creatives_batch task is running
    batch_results,      \* history: per launched batch, "pending" or how it ended
    creative_data,      \* the ad_ids that have an entry in creative_data
    enrich_pc,          \* "idle" | "start" | "gather" | "done"
    enriched_ads,       \* the rows as returned
    \* ---- one paginated listing: get_ad_accounts, get_insights_daily, get_demographics
    endpoint,           \* which of the three
    next_url,           \* "url", or "" when the cursor was present but empty
    page_count,
    all_results,        \* all_accounts / all_insights / all_results
    page_log,           \* history: the pages received, in order
    paging_pc,          \* "idle" | "loop" | "done" | "raised"
    \* ---- AsyncRateLimitMonitor.get_recommended_concurrency, one call
    recommended,        \* what the call returned, 0 before it
    \* ---- the refresh jobs of one tenant (routers/accounts.py)
    jobs,               \* the RefreshJob rows, in creation order: [account, status, error, request]
    task,               \* per job, where its _run_refresh_job background task stands
    n_job_requests,     \* requests handled so far
    last_response,      \* what the latest request returned
    \* ---- the backoff sleeps of one _request_with_retry call whose attempts all fail
    base_delay,         \* the base_delay argument, in milliseconds
    backoff_attempts,   \* the attempts argument
    backoff_attempt,    \* the loop variable
    delays              \* history: the delays slept so far, in milliseconds

monitorVars == <<usage_by_account, global_usage, lock, sleeps_on>>
parseVars   == <<headers, account_id, parse_out, n_parses, parsed_pcts>>
clientVars  == <<lock_waiters, pc, req, attempt, held, throttled, result,
                 last_outcome, retryable_only, n_requests, n_backoffs,
                 n_checks, n_parsed, last_status>>
upsertVars  == <<existing_ads, new_ads, reference_date, merged, merged_once, upsert_calls>>
syncVars    == <<store, sync_pc, run_no, today, existing_baseline, refresh_mode,
                 days_to_fetch, chunk_start, daily_insights, all_daily_ads,
                 files_written, sync_error, store_before, calls>>
enrichVars  == <<input_ads, ad_ids, batches, batch_chunk_start, in_flight, batch_results,
                 creative_data, enrich_pc, enriched_ads>>
pagingVars  == <<endpoint, next_url, page_count, all_results, page_log, paging_pc>>
jobVars     == <<recommended, jobs, task, n_job_requests, last_response>>
backoffVars == <<base_delay, backoff_attempts, backoff_attempt, delays>>
vars        == <<monitorVars, parseVars, clientVars, upsertVars, syncVars, enrichVars,
                 pagingVars, jobVars, backoffVars>>

\* What the steps of one component leave alone in the others.
restOfClient == <<parseVars, upsertVars, syncVars, enrichVars, pagingVars,
                 jobVars, backoffVars>>
restOfParse  == <<upsertVars, syncVars, enrichVars, pagingVars,
                 jobVars, backoffVars>>
restOfUpsert == <<monitorVars, parseVars, clientVars, syncVars, enrichVars, pagingVars,
                 jobVars, backoffVars>>
restOfSync   == <<monitorVars, parseVars, clientVars, upsertVars, enrichVars, pagingVars,
                 jobVars, backoffVars>>
restOfPaging == <<monitorVars, parseVars, clientVars, upsertVars, syncVars, enrichVars,
                 jobVars, backoffVars>>
restOfJobs   == <<monitorVars, parseVars, clientVars, upsertVars, syncVars, enrichVars,
                 pagingVars, backoffVars>>
restOfBackoff == <<monitorVars, parseVars, clientVars, upsertVars, syncVars, enrichVars,
                  pagingVars, jobVars>>
restOfEnrich == <<monitorVars, parseVars, clientVars, upsertVars, syncVars, pagingVars,
                 jobVars, backoffVars>>

Max2(a, b) == IF a >= b THEN a ELSE b
Max3(a, b, c) == Max2(a, Max2(b, c))

(***************************************************************************)
(* Bounds of the model.                                                    *)
(***************************************************************************)
MaxUsages == 2      \* usage entries in one x-business-use-case-usage header
MaxAttempts == 2    \* largest value of the attempts argument
MaxParses == 3      \* parse_headers calls in one behaviour of SpecParse

Clients == {"c1", "c2"}     \* coroutines calling _request_with_retry concurrently
NoClient == "none"

Keys == {"global", "act_1"}

(***************************************************************************)
(* Calendar dates.  A 'YYYY-MM-DD' string is the record [y, m, d]; strings *)
(* of that shape compare as the records do, field by field.  NoDate is a   *)
(* missing (or empty) date field.                                          *)
(***************************************************************************)
NoDate == [y |-> 0, m |-> 0, d |-> 0]
Date(y, m, d) == [y |-> y, m |-> m, d |-> d]

\* str.__ge__ on two 'YYYY-MM-DD' strings
DateGE(a, b) ==
    \/ a.y > b.y
    \/ a.y = b.y /\ a.m > b.m
    \/ a.y = b.y /\ a.m = b.m /\ a.d >= b.d

Epoch == Date(2023, 1, 1)   \* the day of ordinal 1
EpochYear == Epoch.y

IsLeap(y) == (y % 4 = 0 /\ y % 100 # 0) \/ y % 400 = 0
YearLen(y) == IF IsLeap(y) THEN 366 ELSE 365
DaysInMonth(y, m) ==
    IF m = 2 THEN (IF IsLeap(y) THEN 29 ELSE 28)
    ELSE IF m \in {4, 6, 9, 11} THEN 30 ELSE 31

RECURSIVE DaysBeforeYear(_)
DaysBeforeYear(y) == IF y <= EpochYear THEN 0 ELSE DaysBeforeYear(y - 1) + YearLen(y - 1)

RECURSIVE DaysBeforeMonth(_, _)
DaysBeforeMonth(y, m) ==
    IF m <= 1 THEN 0 ELSE DaysBeforeMonth(y, m - 1) + DaysInMonth(y, m - 1)

\* datetime.strptime(s, '%Y-%m-%d'), as a day count
ToOrdinal(dt) == DaysBeforeYear(dt.y) + DaysBeforeMonth(dt.y, dt.m) + dt.d

RECURSIVE OrdinalInYear(_, _, _)
OrdinalInYear(n, y, m) ==
    IF n > DaysInMonth(y, m) THEN OrdinalInYear(n - DaysInMonth(y, m), y, m + 1)
    ELSE Date(y, m, n)

\* strftime('%Y-%m-%d') of a day count
RECURSIVE FromOrdinalFrom(_, _)
FromOrdinalFrom(n, y) ==
    IF n > YearLen(y) THEN FromOrdinalFrom(n - YearLen(y), y + 1)
    ELSE OrdinalInYear(n, y, 1)
FromOrdinal(n) == FromOrdinalFrom(n, EpochYear)

\* date - timedelta(days = n), formatted again
MinusDays(dt, n) == FromOrdinal(ToOrdinal(dt) - n)

(***************************************************************************)
(* Header payloads.                                                        *)
(***************************************************************************)
\* One element of a usage list of x-business-use-case-usage.
\*   kind "ok"      : a dict with numeric fields
\*   kind "notdict" : not a dict, usage.get raises before anything is applied
\*   kind "badest"  : numeric counters, non-numeric estimated_time_to_regain_access
UsageEntries ==
    [kind : {"ok"}, call_count : {50, 85}, total_time : {0, 92},
     total_cputime : {0}, est : {0, 2, 5}]
    \cup [kind : {"notdict"}, call_count : {0}, total_time : {0},
          total_cputime : {0}, est : {0}]
    \cup [kind : {"badest"}, call_count : {50, 92}, total_time : {0},
          total_cputime : {0}, est : {0}]

SeqsUpTo(S, n) == UNION {[1..k -> S] : k \in 0..n}

AbsentBUC == [present |-> FALSE, json_ok |-> FALSE, usages |-> <<>>]
BadBUC    == [present |-> TRUE, json_ok |-> FALSE, usages |-> <<>>]
BUCHeaders ==
    {AbsentBUC, BadBUC}
    \cup {[present |-> TRUE, json_ok |-> TRUE, usages |-> u] : u \in SeqsUpTo(UsageEntries, MaxUsages)}

\* x-ad-account-usage. numeric = acc_id_util_pct is a number.
AbsentACC == [present |-> FALSE, json_ok |-> FALSE, numeric |-> TRUE, pct |-> 0,
              has_reset |-> FALSE, reset |-> 0]
BadACC    == [AbsentACC EXCEPT !.present = TRUE]
ACCHeaders ==
    {AbsentACC, BadACC}
    \cup [present : {TRUE}, json_ok : {TRUE}, numeric : {TRUE}, pct : {50, 85, 92},
          has_reset : {FALSE}, reset : {0}]
    \cup [present : {TRUE}, json_ok : {TRUE}, numeric : {TRUE}, pct : {50, 92},
          has_reset : {TRUE}, reset : {300}]
    \cup [present : {TRUE}, json_ok : {TRUE}, numeric : {FALSE}, pct : {0},
          has_reset : {FALSE}, reset : {0}]

\* x-fb-ads-insights-throttle.
AbsentTHR == [present |-> FALSE, json_ok |-> FALSE, app |-> 0, acc |-> 0]
BadTHR    == [AbsentTHR EXCEPT !.present = TRUE]
THRHeaders ==
    {AbsentTHR, BadTHR}
    \cup [present : {TRUE}, json_ok : {TRUE}, app : {0, 90}, acc : {50, 80}]

HeaderSets == [buc : BUCHeaders, acc : ACCHeaders, thr : THRHeaders]

\* The headers of the responses after the first one.
NoHeaders == [buc |-> AbsentBUC, acc |-> AbsentACC, thr |-> AbsentTHR]
LaterHeaders ==
    { NoHeaders,
      [NoHeaders EXCEPT !.thr = [present |-> TRUE, json_ok |-> TRUE, app |-> 0, acc |-> 50]],
      [NoHeaders EXCEPT !.acc = [present |-> TRUE, json_ok |-> TRUE, numeric |-> TRUE,
                                 pct |-> 85, has_reset |-> FALSE, reset |-> 0]],
      [NoHeaders EXCEPT !.acc = [present |-> TRUE, json_ok |-> TRUE, numeric |-> FALSE,
                                 pct |-> 0, has_reset |-> FALSE, reset |-> 0]] }

(***************************************************************************)
(* AsyncRateLimitMonitor.parse_headers                                     *)
(***************************************************************************)
\* usage_info as built at the top of parse_headers; numeric records whether
\* usage_percent still holds a number.  The free-form 'details' is left out.
NewUsageInfo ==
    [usage_percent |-> 0, should_pause |-> FALSE, pause_seconds |-> 0, numeric |-> TRUE]

\* The body of the loop over the usage entries, from entry i on.  An exception
\* leaves the loop and keeps what the earlier statements already assigned.
RECURSIVE BUCLoop(_, _, _)
BUCLoop(info, usages, i) ==
    IF i > Len(usages) THEN info
    ELSE LET u == usages[i] IN
         IF u.kind = "notdict" THEN info
         ELSE LET max_usage == Max3(u.call_count, u.total_time, u.total_cputime)
                  info1 == [info EXCEPT !.usage_percent = Max2(info.usage_percent, max_usage)]
              IN  IF u.kind = "badest" THEN info1
                  ELSE LET info2 == IF u.est > 0
                                    THEN [info1 EXCEPT !.pause_seconds = u.est * 60,
                                                       !.should_pause = TRUE]
                                    ELSE info1
                       IN  BUCLoop(info2, usages, i + 1)

ApplyBUC(info, buc) ==
    IF buc.present /\ buc.json_ok THEN BUCLoop(info, buc.usages, 1) ELSE info

\* The fallback header is read only when the detailed header string is empty.
AccFallbackUsedMutant(buc, acc) == acc.present
AccFallbackUsed(buc, acc) == acc.present /\ ~buc.present

ApplyACC(info, buc, acc) ==
    IF AccFallbackUsed(buc, acc) /\ acc.json_ok
    THEN LET info1 == [info EXCEPT !.usage_percent = acc.pct, !.numeric = acc.numeric]
         IN  IF acc.has_reset THEN [info1 EXCEPT !.pause_seconds = acc.reset] ELSE info1
    ELSE info

\* max() over a non-number raises TypeError, which the except clause swallows.
ApplyTHR(info, thr) ==
    IF thr.present /\ thr.json_ok /\ info.numeric
    THEN [info EXCEPT !.usage_percent = Max3(info.usage_percent, thr.app, thr.acc)]
    ELSE info

PauseSecondsForMutant(pct) == IF pct >= 95 THEN 120 ELSE 60
PauseSecondsFor(pct) == IF pct >= 90 THEN 120 ELSE 60

ThresholdAppliesMutant(info) == info.usage_percent >= 80
ThresholdApplies(info) == info.usage_percent >= 80 /\ ~info.should_pause

Decide(info) ==
    IF ThresholdApplies(info)
    THEN [info EXCEPT !.should_pause = TRUE,
                      !.pause_seconds = PauseSecondsFor(info.usage_percent)]
    ELSE info

\* What parse_headers computes before it stores anything.  The comparison of
\* line 109 is outside every try block: a non-numeric usage_percent raises.
ParseInfo(h) == ApplyTHR(ApplyACC(ApplyBUC(NewUsageInfo, h.buc), h.buc, h.acc), h.thr)
ParseRaises(h) == ~ParseInfo(h).numeric
ParseResult(h) == Decide(ParseInfo(h))

\* usage_by_account.get(k, {}) of a key that is not in the dict.
NoSnapshot == [present |-> FALSE, usage_percent |-> 0, should_pause |-> FALSE,
               pause_seconds |-> 0]

Snapshot(info) ==
    [present |-> TRUE, usage_percent |-> info.usage_percent,
     should_pause |-> info.should_pause, pause_seconds |-> info.pause_seconds]

\* The snapshots currently stored.
Stored(usages) == {k \in DOMAIN usages : usages[k].present}

SetMax(S) == CHOOSE m \in S : \A q \in S : m >= q

GlobalAfterLatest(g, pct, usages) == pct
GlobalAfterMutant(g, pct, usages) ==
    SetMax({usages[k].usage_percent : k \in Stored(usages)})
GlobalAfter(g, pct, usages) == Max2(g, pct)

\* parse_headers(h, k) on the monitor: lines 116-118 run only when nothing raised.
\* The new dict replaces the one stored under k: a coroutine sleeping in
\* check_and_throttle(k) is left holding the old one.
StoreParse(k, h) ==
    IF ParseRaises(h)
    THEN UNCHANGED <<usage_by_account, global_usage, sleeps_on, held>>
    ELSE LET info  == ParseResult(h)
             usages == [usage_by_account EXCEPT ![k] = Snapshot(info)]
         IN  /\ usage_by_account' = usages
             /\ global_usage' = GlobalAfter(global_usage, info.usage_percent, usages)
             /\ sleeps_on' = [sleeps_on EXCEPT ![k] = 0]
             /\ held' = [q \in DOMAIN held |->
                            held[q] /\ ~(pc[q] = "sleeping" /\ req[q].account_id = k)]

(***************************************************************************)
(* _upsert_daily_ads                                                       *)
(***************************************************************************)
BASELINE_DAYS == 90
TAIL_BACKFILL_DAYS == 3

MaxAds == 2         \* length of the existing_ads and of the new_ads list

\* A row of daily insights: ad_id ("" when missing), date_start and date
\* (NoDate when missing) and the rest of the payload, here the spend.
Ad(id, ds, dt, spend) == [ad_id |-> id, date_start |-> ds, date |-> dt, spend |-> spend]

AdRows ==
    { Ad("a1", Date(2024, 4, 1), NoDate, 10),
      Ad("a1", Date(2024, 4, 1), NoDate, 15),
      Ad("a2", NoDate, Date(2024, 3, 31), 10),
      Ad("a1", Date(2024, 1, 2), NoDate, 10),
      Ad("a2", Date(2024, 1, 1), NoDate, 10),
      Ad("", Date(2024, 4, 1), NoDate, 10) }

ReferenceDates == {Date(2024, 4, 1), Date(2024, 4, 2)}

\* ad.get('date_start') or ad.get('date')
AdDate(ad) == IF ad.date_start # NoDate THEN ad.date_start ELSE ad.date
\* if ad_id and ad_date
HasKey(ad) == ad.ad_id # "" /\ AdDate(ad) # NoDate
AdKey(ad) == <<ad.ad_id, AdDate(ad)>>

\* ads_index[key] = ad on a dict kept as the sequence of its items in
\* insertion order: an existing key keeps its place.
PutMutant(index, key, ad) == Append(index, [key |-> key, ad |-> ad])
Put(index, key, ad) ==
    IF \E i \in 1..Len(index) : index[i].key = key
    THEN [i \in 1..Len(index) |->
             IF index[i].key = key THEN [key |-> key, ad |-> ad] ELSE index[i]]
    ELSE Append(index, [key |-> key, ad |-> ad])

\* The two indexing loops (lines 133-138 and 146-155).
RECURSIVE IndexAds(_, _, _)
IndexAds(index, ads, i) ==
    IF i > Len(ads) THEN index
    ELSE IndexAds(IF HasKey(ads[i]) THEN Put(index, AdKey(ads[i]), ads[i]) ELSE index,
                  ads, i + 1)

CutoffDate(ref) == MinusDays(ref, BASELINE_DAYS)

\* if ad_date >= cutoff_date
KeptMutant(ad_date, cutoff) == DateGE(ad_date, cutoff) /\ ad_date # cutoff
Kept(ad_date, cutoff) == DateGE(ad_date, cutoff)

RECURSIVE CleanedAds(_, _, _)
CleanedAds(index, cutoff, i) ==
    IF i > Len(index) THEN <<>>
    ELSE (IF Kept(index[i].key[2], cutoff) THEN <<index[i].ad>> ELSE <<>>)
         \o CleanedAds(index, cutoff, i + 1)

UpsertDailyAdsMutant(existing, new, ref) ==
    CleanedAds(IndexAds(IndexAds(<<>>, new, 1), existing, 1), CutoffDate(ref), 1)
UpsertDailyAds(existing, new, ref) ==
    CleanedAds(IndexAds(IndexAds(<<>>, existing, 1), new, 1), CutoffDate(ref), 1)

(***************************************************************************)
(* sync_account_data: the data of a run                                    *)
(***************************************************************************)
CHUNK_SIZE_DAYS == 30

MaxRuns == 2        \* runs in one behaviour of SpecSync

\* A reference_date string that strptime rejects.
BadDate == [y |-> -1, m |-> 0, d |-> 0]

NoMeta == [reference_date |-> NoDate, mode |-> "", days_fetched |-> 0,
           total_daily_rows |-> 0]

\* What the raw-dataset key holds.  kind: "missing" (get_object raises
\* StorageError), "undecodable" (bytes that are not UTF-8), "corrupt" (text that
\* is not JSON), "nostructure"
\* (JSON without 'daily_ads' or 'metadata'), "doc".
RawOf(kind, meta, ads) == [kind |-> kind, metadata |-> meta, daily_ads |-> ads]
RawMissing == RawOf("missing", NoMeta, <<>>)

\* None, as returned by _load_existing_baseline
NoBaseline == RawOf("none", NoMeta, <<>>)

BaselineData(ref, mode, days, ads) ==
    RawOf("doc",
          [reference_date |-> ref, mode |-> mode, days_fetched |-> days,
           total_daily_rows |-> Len(ads)],
          ads)

\* The raw dataset an account may hold before its first modelled run.
InitialRaw ==
    { RawMissing,
      RawOf("undecodable", NoMeta, <<>>),
      RawOf("corrupt", NoMeta, <<>>),
      RawOf("nostructure", NoMeta, <<>>),
      RawOf("doc", NoMeta, <<Ad("a1", Date(2024, 4, 1), NoDate, 10)>>),
      RawOf("doc", [NoMeta EXCEPT !.reference_date = BadDate], <<>>),
      BaselineData(Date(2024, 4, 5), "BASELINE", 90, <<>>),
      BaselineData(Date(2023, 6, 1), "TAIL", 3, <<>>),
      BaselineData(Date(2024, 4, 2), "TAIL", 3, <<>>),
      BaselineData(Date(2024, 3, 31), "BASELINE", 90,
                   <<Ad("a1", Date(2024, 4, 1), NoDate, 10),
                     Ad("a2", Date(2024, 1, 1), NoDate, 10)>>) }

Todays == {Date(2024, 4, 2), Date(2024, 4, 3)}

\* What one get_insights_daily call may return.
FetchedLists ==
    { <<>>,
      <<Ad("a1", Date(2024, 4, 1), NoDate, 15)>>,
      <<Ad("a1", Date(2024, 4, 1), NoDate, 10), Ad("a1", Date(2024, 4, 1), NoDate, 15)>>,
      <<Ad("a2", Date(2024, 1, 1), NoDate, 10), Ad("", Date(2024, 4, 1), NoDate, 10)>>,
      <<Ad("a3", Date(2024, 4, 1), NoDate, 20)>> }

\* _load_existing_baseline: every failure yields None.
LoadExistingBaselineMutant(raw) ==
    IF raw.kind \in {"doc", "nostructure"} THEN raw ELSE NoBaseline
LoadExistingBaseline(raw) == IF raw.kind = "doc" THEN raw ELSE NoBaseline

\* _determine_refresh_mode
DetermineRefreshModeMutant(baseline, ref) ==
    IF baseline.kind = "none" THEN <<"BASELINE", BASELINE_DAYS>>
    ELSE IF baseline.metadata.reference_date \in {NoDate, BadDate}
         THEN <<"BASELINE", BASELINE_DAYS>>
    ELSE IF ToOrdinal(ref) - ToOrdinal(baseline.metadata.reference_date) < 0
         THEN <<"BASELINE", BASELINE_DAYS>>
    ELSE IF ToOrdinal(ref) - ToOrdinal(baseline.metadata.reference_date) > BASELINE_DAYS
         THEN <<"BASELINE", BASELINE_DAYS>>
    ELSE <<"TAIL", TAIL_BACKFILL_DAYS>>
DetermineRefreshMode(baseline, ref) ==
    IF baseline.kind = "none" THEN <<"BASELINE", BASELINE_DAYS>>
    ELSE IF baseline.metadata.reference_date = NoDate THEN <<"BASELINE", BASELINE_DAYS>>
    ELSE IF baseline.metadata.reference_date = BadDate THEN <<"BASELINE", BASELINE_DAYS>>
    ELSE IF ToOrdinal(ref) - ToOrdinal(baseline.metadata.reference_date) < 0
         THEN <<"BASELINE", BASELINE_DAYS>>
    ELSE <<"TAIL", TAIL_BACKFILL_DAYS>>

\* The order of the statements of sync_account_data after the fetch.
NextStageMutant(stage) ==
    CASE stage = "enrich"         -> "write_raw"
      [] stage = "write_raw"      -> "transform"
      [] stage = "transform"      -> "validate"
      [] stage = "validate"       -> "write_meta"
      [] stage = "write_meta"     -> "write_agg"
      [] stage = "write_agg"      -> "write_summary"
      [] stage = "write_summary"  -> "write_manifest"
      [] stage = "write_manifest" -> "done"
NextStageAggFirst(stage) ==
    CASE stage = "enrich"         -> "transform"
      [] stage = "transform"      -> "validate"
      [] stage = "validate"       -> "write_raw"
      [] stage = "write_raw"      -> "write_agg"
      [] stage = "write_agg"      -> "write_meta"
      [] stage = "write_meta"     -> "write_summary"
      [] stage = "write_summary"  -> "write_manifest"
      [] stage = "write_manifest" -> "done"
NextStageShardsFirst(stage) ==
    CASE stage = "enrich"         -> "transform"
      [] stage = "transform"      -> "write_meta"
      [] stage = "write_meta"     -> "write_agg"
      [] stage = "write_agg"      -> "write_summary"
      [] stage = "write_summary"  -> "validate"
      [] stage = "validate"       -> "write_raw"
      [] stage = "write_raw"      -> "write_manifest"
      [] stage = "write_manifest" -> "done"
NextStage(stage) ==
    CASE stage = "enrich"         -> "transform"
      [] stage = "transform"      -> "validate"
      [] stage = "validate"       -> "write_raw"
      [] stage = "write_raw"      -> "write_meta"
      [] stage = "write_meta"     -> "write_agg"
      [] stage = "write_agg"      -> "write_summary"
      [] stage = "write_summary"  -> "write_manifest"
      [] stage = "write_manifest" -> "done"

EmptyStore == [raw |-> RawMissing, meta |-> 0, agg |-> 0, summary |-> 0, manifest |-> 0]

(***************************************************************************)
(* The state of each component while another one is being checked.         *)
(***************************************************************************)
EnrichIdle ==
    /\ input_ads = <<>>
    /\ ad_ids = <<>>
    /\ batches = <<>>
    /\ batch_chunk_start = 0
    /\ in_flight = {}
    /\ batch_results = <<>>
    /\ creative_data = {}
    /\ enrich_pc = "idle"
    /\ enriched_ads = <<>>

PagingIdle ==
    /\ endpoint = ""
    /\ next_url = ""
    /\ page_count = 0
    /\ all_results = <<>>
    /\ page_log = <<>>
    /\ paging_pc = "idle"

NoResponse == [kind |-> "none", account |-> "", job_id |-> 0,
               already_processing |-> FALSE, jobs_launched |-> 0]

BackoffIdle ==
    /\ base_delay = 0
    /\ backoff_attempts = 0
    /\ backoff_attempt = 0
    /\ delays = <<>>

JobsIdle ==
    /\ recommended = 0
    /\ jobs = <<>>
    /\ task = <<>>
    /\ n_job_requests = 0
    /\ last_response = NoResponse

UpsertIdle ==
    /\ existing_ads = <<>>
    /\ new_ads = <<>>
    /\ reference_date = NoDate
    /\ merged = <<>>
    /\ merged_once = <<>>
    /\ upsert_calls = 0

RunReset ==
    /\ today = NoDate
    /\ existing_baseline = NoBaseline
    /\ refresh_mode = ""
    /\ days_to_fetch = 0
    /\ chunk_start = NoDate
    /\ daily_insights = <<>>
    /\ all_daily_ads = <<>>
    /\ files_written = <<>>
    /\ sync_error = ""
    /\ calls = <<>>

SyncIdle ==
    /\ store = EmptyStore
    /\ store_before = EmptyStore
    /\ sync_pc = "idle"
    /\ run_no = 0
    /\ RunReset

MonitorInit ==
    /\ usage_by_account = [k \in Keys |-> NoSnapshot]
    /\ global_usage = 0
    /\ lock = NoClient
    /\ sleeps_on = [k \in Keys |-> 0]

(***************************************************************************)
(* SpecParse: parse_headers applied once to every header set.              *)
(***************************************************************************)
ParseIdle ==
    /\ headers = NoHeaders
    /\ account_id = "global"
    /\ parse_out = "idle"
    /\ n_parses = 0
    /\ parsed_pcts = {}

ClientIdle ==
    /\ lock_waiters = <<>>
    /\ pc = [p \in Clients |-> "idle"]
    /\ req = [p \in Clients |-> [attempts |-> 0, account_id |-> "global"]]
    /\ attempt = [p \in Clients |-> 0]
    /\ held = [p \in Clients |-> FALSE]
    /\ throttled = [p \in Clients |-> FALSE]
    /\ result = [p \in Clients |-> "none"]
    /\ last_outcome = [p \in Clients |-> "none"]
    /\ retryable_only = [p \in Clients |-> TRUE]
    /\ n_requests = [p \in Clients |-> 0]
    /\ n_backoffs = [p \in Clients |-> 0]
    /\ n_checks = [p \in Clients |-> 0]
    /\ n_parsed = [p \in Clients |-> 0]
    /\ last_status = [p \in Clients |-> 0]

ParseInit ==
    /\ MonitorInit
    /\ EnrichIdle
    /\ PagingIdle
    /\ JobsIdle
    /\ BackoffIdle
    /\ ClientIdle
    /\ UpsertIdle
    /\ SyncIdle
    /\ headers \in HeaderSets
    /\ account_id \in Keys
    /\ parse_out = "pending"
    /\ n_parses = 0
    /\ parsed_pcts = {}

\* parse_headers(headers, account_id)
ParseCall ==
    /\ parse_out = "pending"
    /\ StoreParse(account_id, headers)
    /\ parse_out' = IF ParseRaises(headers) THEN "raised" ELSE "returned"
    /\ n_parses' = n_parses + 1
    /\ parsed_pcts' = IF ParseRaises(headers) THEN parsed_pcts
                      ELSE parsed_pcts \cup {ParseResult(headers).usage_percent}
    /\ UNCHANGED <<lock, headers, account_id, lock_waiters, pc, req, attempt, throttled,
                   result, last_outcome, retryable_only, n_requests, n_backoffs,
                   n_checks, n_parsed, last_status, restOfParse>>

\* The next response, for any key, reaches parse_headers.
Receive(k, h) ==
    /\ parse_out # "pending"
    /\ n_parses < MaxParses
    /\ headers' = h
    /\ account_id' = k
    /\ parse_out' = "pending"
    /\ UNCHANGED <<monitorVars, n_parses, parsed_pcts, clientVars, restOfParse>>

ParseNext ==
    \/ ParseCall
    \/ \E k \in Keys, h \in LaterHeaders : Receive(k, h)

SpecParse == ParseInit /\ [][ParseNext]_vars

(***************************************************************************)
(* Properties of parse_headers (SpecParse).                                *)
(***************************************************************************)
\* The snapshot the call stored.
Snap == usage_by_account[account_id]

SameDecision(s, info) ==
    /\ s.usage_percent = info.usage_percent
    /\ s.should_pause = info.should_pause
    /\ s.pause_seconds = info.pause_seconds

\* The detailed header is present and every entry of it is well-formed.
DetailedParses(buc) ==
    buc.present /\ buc.json_ok /\ \A i \in 1..Len(buc.usages) : buc.usages[i].kind = "ok"

MalformedBUC(buc) == buc.present /\ ~DetailedParses(buc)
MalformedACC(acc) == acc.present /\ (~acc.json_ok \/ ~acc.numeric)
MalformedTHR(thr) == thr.present /\ ~thr.json_ok

\* Indices of the usage entries that report a positive time to regain access
\* and that the loop reaches (every entry before them is well-formed).
Reporting(buc) ==
    IF buc.present /\ buc.json_ok
    THEN {i \in 1..Len(buc.usages) :
             /\ \A j \in 1..i : buc.usages[j].kind = "ok"
             /\ buc.usages[i].est > 0}
    ELSE {}

\* C6 (as stated): with a detailed header that parses, the snapshot is the same
\* whatever the single-account and the throttle headers are.
C6_DetailedOnly ==
    (parse_out = "returned" /\ DetailedParses(headers.buc)) =>
        \A a \in ACCHeaders, t \in THRHeaders :
            SameDecision(Snap, ParseResult([buc |-> headers.buc, acc |-> a, thr |-> t]))

\* C6 (amended): with a detailed header that parses, the snapshot is the same
\* whatever the single-account header is; the throttle header still counts.
C6_AccountHeaderIgnored ==
    (parse_out = "returned" /\ DetailedParses(headers.buc)) =>
        \A a \in ACCHeaders :
            SameDecision(Snap, ParseResult([headers EXCEPT !.acc = a]))

C6_Witness ==
    /\ parse_out = "returned"
    /\ DetailedParses(headers.buc)
    /\ headers.acc.present /\ headers.acc.json_ok /\ headers.acc.pct = 92
    /\ Snap.usage_percent < 80 /\ ~Snap.should_pause

\* C7: parse never raises, and a malformed header gives the snapshot that the
\* same headers without that header give.
C7_MalformedAsAbsent ==
    parse_out # "pending" =>
        /\ parse_out = "returned"
        /\ MalformedBUC(headers.buc) =>
              LET alt == [headers EXCEPT !.buc = AbsentBUC]
              IN  ~ParseRaises(alt) /\ SameDecision(Snap, ParseResult(alt))
        /\ MalformedACC(headers.acc) =>
              LET alt == [headers EXCEPT !.acc = AbsentACC]
              IN  ~ParseRaises(alt) /\ SameDecision(Snap, ParseResult(alt))
        /\ MalformedTHR(headers.thr) =>
              LET alt == [headers EXCEPT !.thr = AbsentTHR]
              IN  ~ParseRaises(alt) /\ SameDecision(Snap, ParseResult(alt))

\* C8: when no entry reports a time to regain access the pause decision follows
\* usage_percent alone: >= 90 pauses 120 s, 80..89 pauses 60 s, below 80 no pause.
C8_ThresholdDecision ==
    (parse_out = "returned" /\ Reporting(headers.buc) = {}) =>
        /\ Snap.usage_percent >= 90 => (Snap.should_pause /\ Snap.pause_seconds = 120)
        /\ (Snap.usage_percent >= 80 /\ Snap.usage_percent < 90) =>
              (Snap.should_pause /\ Snap.pause_seconds = 60)
        /\ Snap.usage_percent < 80 => ~Snap.should_pause

C8_Witness ==
    /\ parse_out = "returned"
    /\ Reporting(headers.buc) = {}
    /\ headers.acc.has_reset
    /\ Snap.usage_percent = 92 /\ Snap.should_pause /\ Snap.pause_seconds = 120

\* C9 (as stated): every entry that reports m > 0 minutes makes the snapshot
\* pause for 60 * m seconds.
C9_EveryReportedWait ==
    parse_out = "returned" =>
        \A i \in Reporting(headers.buc) :
            Snap.should_pause /\ Snap.pause_seconds = 60 * headers.buc.usages[i].est

\* C9 (amended): when some entry reports a positive time to regain access, the
\* snapshot pauses for 60 * m seconds, m being the time of the last such entry,
\* whatever usage_percent is.
C9_LastReportedWait ==
    (parse_out = "returned" /\ Reporting(headers.buc) # {}) =>
        LET last == SetMax(Reporting(headers.buc))
        IN  Snap.should_pause /\ Snap.pause_seconds = 60 * headers.buc.usages[last].est

C9_Witness ==
    /\ parse_out = "returned"
    /\ Cardinality(Reporting(headers.buc)) = 2
    /\ headers.buc.usages[1].est # headers.buc.usages[2].est
    /\ Snap.usage_percent >= 90
    /\ Snap.pause_seconds = 60 * headers.buc.usages[2].est

(***************************************************************************)
(* AsyncRateLimitMonitor.check_and_throttle and                            *)
(* MetaClient._request_with_retry, run by concurrent coroutines.  A step   *)
(* is what a coroutine runs between two suspension points.                 *)
(***************************************************************************)
Statuses == {200, 404, 429, 500}

\* The response headers the provider sends to the coroutines.
ClientHeaders == LaterHeaders

\* response.raise_for_status()
RaisesForStatus(st) == st >= 400

\* How an attempt that received status st ends.
StatusOutcome(st) ==
    IF ~RaisesForStatus(st) THEN "2xx"
    ELSE IF st = 429 THEN "429"
    ELSE IF st >= 500 THEN "5xx"
    ELSE "4xx"

\* The except clause: httpx.HTTPStatusError, httpx.ConnectError, httpx.ReadTimeout.
TransportErrors == {"ConnectError", "ReadTimeout", "ConnectTimeout"}
Caught(exc) == exc \in {"HTTPStatusError", "ConnectError", "ReadTimeout"}

RetryableOutcomes == {"5xx", "429", "ConnectError", "ReadTimeout"}

\* asyncio.Lock.acquire returns at once only when the lock is free and nobody queues.
LockFreeNoQueue == lock_waiters = <<>>
LockFreeMutant == TRUE
LockFree == lock = NoClient /\ lock_waiters = <<>>

\* attempt == attempts
LastAttemptMutant(a, n) == a >= n - 1
LastAttempt(a, n) == a = n

\* check_and_throttle once the lock is held, up to the next suspension point:
\* either the pause sleep, or (lock released, False returned) the HTTP request.
ThrottleBody(p, k) ==
    LET usage == usage_by_account[k] IN
    IF usage.should_pause
    THEN /\ lock' = p
         /\ pc' = [pc EXCEPT ![p] = "sleeping"]
         /\ held' = [held EXCEPT ![p] = usage.present]
         /\ sleeps_on' = [sleeps_on EXCEPT ![k] = @ + 1]
         /\ UNCHANGED <<throttled, n_requests>>
    ELSE /\ lock' = NoClient
         /\ pc' = [pc EXCEPT ![p] = "request"]
         /\ throttled' = [throttled EXCEPT ![p] = FALSE]
         /\ n_requests' = [n_requests EXCEPT ![p] = @ + 1]
         /\ UNCHANGED <<held, sleeps_on>>

\* async with self._lock
EnterThrottle(p, k) ==
    /\ n_checks' = [n_checks EXCEPT ![p] = @ + 1]
    /\ IF LockFree
       THEN ThrottleBody(p, k) /\ UNCHANGED lock_waiters
       ELSE /\ pc' = [pc EXCEPT ![p] = "lock_wait"]
            /\ lock_waiters' = Append(lock_waiters, p)
            /\ UNCHANGED <<lock, held, sleeps_on, throttled, n_requests>>

\* _request_with_retry(attempts = n, account_id = k) up to its first suspension.
Call(p, n, k) ==
    /\ pc[p] = "idle"
    /\ req' = [req EXCEPT ![p] = [attempts |-> n, account_id |-> k]]
    /\ attempt' = [attempt EXCEPT ![p] = 1]
    /\ EnterThrottle(p, k)
    /\ UNCHANGED <<usage_by_account, global_usage, result, last_outcome,
                   retryable_only, n_backoffs, n_parsed, last_status,
                   restOfClient>>

\* The lock is handed to the first queued coroutine.
LockGranted(p) ==
    /\ pc[p] = "lock_wait"
    /\ lock = NoClient
    /\ lock_waiters # <<>> /\ Head(lock_waiters) = p
    /\ lock_waiters' = Tail(lock_waiters)
    /\ ThrottleBody(p, req[p].account_id)
    /\ UNCHANGED <<usage_by_account, global_usage, req, attempt, result,
                   last_outcome, retryable_only, n_backoffs, n_checks, n_parsed,
                   last_status, restOfClient>>

\* usage['should_pause'] = False on the dict read before the sleep: the stored
\* snapshots change only when that dict is still the one stored under k.
ResetAfterPauseMutant(usages, k, still_stored) == [usages EXCEPT ![k].should_pause = FALSE]
ResetAfterPause(usages, k, still_stored) ==
    IF still_stored THEN [usages EXCEPT ![k].should_pause = FALSE] ELSE usages

\* asyncio.sleep(actual_pause) ends: the dict read before the sleep gets
\* should_pause = False, the lock is released, True is returned, the request is sent.
Wake(p) ==
    /\ pc[p] = "sleeping"
    /\ usage_by_account' = ResetAfterPause(usage_by_account, req[p].account_id, held[p])
    /\ lock' = NoClient
    /\ throttled' = [throttled EXCEPT ![p] = TRUE]
    /\ pc' = [pc EXCEPT ![p] = "request"]
    /\ n_requests' = [n_requests EXCEPT ![p] = @ + 1]
    /\ UNCHANGED <<global_usage, sleeps_on, lock_waiters, req, attempt,
                   held, result, last_outcome, retryable_only, n_backoffs,
                   n_checks, n_parsed, last_status,
                   restOfClient>>

\* The except clause of the loop, entered with an attempt that ended in `outcome`.
Handler(p, outcome) ==
    /\ last_outcome' = [last_outcome EXCEPT ![p] = outcome]
    /\ retryable_only' = [retryable_only EXCEPT ![p] = @ /\ outcome \in RetryableOutcomes]
    /\ IF LastAttempt(attempt[p], req[p].attempts)
       THEN /\ result' = [result EXCEPT ![p] = "MetaAPIError"]
            /\ pc' = [pc EXCEPT ![p] = "done"]
            /\ UNCHANGED n_backoffs
       ELSE /\ pc' = [pc EXCEPT ![p] = "backoff"]
            /\ n_backoffs' = [n_backoffs EXCEPT ![p] = @ + 1]
            /\ UNCHANGED result

\* The call ends without entering the except clause.
Leave(p, outcome, res) ==
    /\ last_outcome' = [last_outcome EXCEPT ![p] = outcome]
    /\ retryable_only' = [retryable_only EXCEPT ![p] = FALSE]
    /\ result' = [result EXCEPT ![p] = res]
    /\ pc' = [pc EXCEPT ![p] = "done"]
    /\ UNCHANGED n_backoffs

\* A response with status st and headers h arrives (lines 258-268).
RespondMutant(p, st, h) ==
    /\ pc[p] = "request"
    /\ IF RaisesForStatus(st)
       THEN /\ Handler(p, StatusOutcome(st))
            /\ UNCHANGED <<usage_by_account, global_usage, sleeps_on, held, n_parsed>>
       ELSE /\ StoreParse(req[p].account_id, h)
            /\ n_parsed' = [n_parsed EXCEPT ![p] = @ + 1]
            /\ IF ParseRaises(h) THEN Leave(p, "TypeError", "TypeError")
               ELSE Leave(p, "2xx", "ok")
    /\ last_status' = [last_status EXCEPT ![p] = st]
    /\ UNCHANGED <<lock, lock_waiters, req, attempt, throttled, n_requests,
                   n_checks, restOfClient>>
Respond(p, st, h) ==
    /\ pc[p] = "request"
    /\ StoreParse(req[p].account_id, h)
    /\ n_parsed' = [n_parsed EXCEPT ![p] = @ + 1]
    /\ IF ParseRaises(h) THEN Leave(p, "TypeError", "TypeError")
       ELSE IF RaisesForStatus(st) THEN Handler(p, StatusOutcome(st))
       ELSE Leave(p, "2xx", "ok")
    /\ last_status' = [last_status EXCEPT ![p] = st]
    /\ UNCHANGED <<lock, lock_waiters, req, attempt, throttled, n_requests,
                   n_checks, restOfClient>>

\* The request raises instead of returning a response.
Fail(p, exc) ==
    /\ pc[p] = "request"
    /\ IF Caught(exc) THEN Handler(p, exc) ELSE Leave(p, exc, exc)
    /\ last_status' = [last_status EXCEPT ![p] = 0]
    /\ UNCHANGED <<monitorVars, lock_waiters, req, attempt, held, throttled,
                   n_requests, n_checks, n_parsed, restOfClient>>

\* The backoff sleep ends and the next iteration runs up to its first suspension.
BackoffDone(p) ==
    /\ pc[p] = "backoff"
    /\ attempt' = [attempt EXCEPT ![p] = @ + 1]
    /\ EnterThrottle(p, req[p].account_id)
    /\ UNCHANGED <<usage_by_account, global_usage, req, result, last_outcome,
                   retryable_only, n_backoffs, n_parsed, last_status,
                   restOfClient>>

Init ==
    /\ MonitorInit
    /\ EnrichIdle
    /\ PagingIdle
    /\ JobsIdle
    /\ BackoffIdle
    /\ ClientIdle
    /\ ParseIdle
    /\ UpsertIdle
    /\ SyncIdle

Next ==
    \E p \in Clients :
        \/ \E n \in 1..MaxAttempts, k \in Keys : Call(p, n, k)
        \/ LockGranted(p)
        \/ Wake(p)
        \/ \E st \in Statuses, h \in ClientHeaders : Respond(p, st, h)
        \/ \E exc \in TransportErrors : Fail(p, exc)
        \/ BackoffDone(p)

Spec == Init /\ [][Next]_vars

(***************************************************************************)
(* Properties of the retry loop and of the monitor.                        *)
(***************************************************************************)
\* C1: an attempt that received a 4xx other than 429 is the last one: the call
\* has ended with an error, no backoff sleep follows it.
C1_NoRetryOn4xx ==
    \A p \in Clients :
        last_outcome[p] = "4xx" => (pc[p] = "done" /\ result[p] # "ok")

\* C2: a call whose attempts all ended in a 5xx, a 429, a ConnectError or a
\* ReadTimeout made exactly `attempts` requests, slept attempts - 1 times and
\* raised MetaAPIError.
C2_RetryBudget ==
    \A p \in Clients :
        (pc[p] = "done" /\ retryable_only[p]) =>
            /\ n_requests[p] = req[p].attempts
            /\ n_backoffs[p] = req[p].attempts - 1
            /\ result[p] = "MetaAPIError"

C2_Witness ==
    \E p \in Clients :
        /\ pc[p] = "done" /\ retryable_only[p]
        /\ req[p].attempts >= 2
        /\ n_requests[p] = req[p].attempts
        /\ result[p] = "MetaAPIError"

Sleepers(k) == {p \in Clients : pc[p] = "sleeping" /\ req[p].account_id = k}

\* C4: at most one pause is taken on the snapshot stored under a key, and once
\* that pause is over the snapshot no longer asks for one.
C4_OneSleepPerSignal ==
    \A k \in Keys :
        /\ sleeps_on[k] <= 1
        /\ (sleeps_on[k] = 1 /\ Sleepers(k) = {}) => ~usage_by_account[k].should_pause

C4_Witness ==
    \E p, q \in Clients :
        /\ p # q /\ req[p].account_id = req[q].account_id
        /\ pc[p] = "sleeping" /\ pc[q] = "lock_wait"
        /\ sleeps_on[req[p].account_id] = 1

StoredPcts == {usage_by_account[k].usage_percent : k \in Stored(usage_by_account)}

\* C5 (as stated): global_usage is the maximum usage_percent of the stored snapshots.
C5_GlobalIsMaxOfStored ==
    Stored(usage_by_account) # {} => global_usage = SetMax(StoredPcts)

\* C5 (amended): global_usage is the maximum usage_percent over every snapshot
\* parse_headers produced so far, so it is at least that of each stored snapshot.
C5_GlobalIsRunningMax ==
    /\ global_usage = SetMax(parsed_pcts \cup {0})
    /\ \A q \in StoredPcts : global_usage >= q

C5_Witness ==
    /\ n_parses >= 2
    /\ Stored(usage_by_account) # {}
    /\ global_usage > SetMax(StoredPcts)

(***************************************************************************)
(* SpecUpsert: _upsert_daily_ads applied to every pair of lists, then      *)
(* applied again to its own result with the same new_ads.                  *)
(***************************************************************************)
UpsertInit ==
    /\ MonitorInit
    /\ EnrichIdle
    /\ PagingIdle
    /\ JobsIdle
    /\ BackoffIdle
    /\ ClientIdle
    /\ ParseIdle
    /\ SyncIdle
    /\ existing_ads \in SeqsUpTo(AdRows, MaxAds)
    /\ new_ads \in SeqsUpTo(AdRows, MaxAds)
    /\ reference_date \in ReferenceDates
    /\ merged = <<>>
    /\ merged_once = <<>>
    /\ upsert_calls = 0

UpsertFirst ==
    /\ upsert_calls = 0
    /\ merged' = UpsertDailyAds(existing_ads, new_ads, reference_date)
    /\ merged_once' = merged'
    /\ upsert_calls' = 1
    /\ UNCHANGED <<existing_ads, new_ads, reference_date, restOfUpsert>>

UpsertAgain ==
    /\ upsert_calls = 1
    /\ merged' = UpsertDailyAds(merged, new_ads, reference_date)
    /\ upsert_calls' = 2
    /\ UNCHANGED <<existing_ads, new_ads, reference_date, merged_once, restOfUpsert>>

UpsertNext == UpsertFirst \/ UpsertAgain

SpecUpsert == UpsertInit /\ [][UpsertNext]_vars

\* C10: merging the same new_ads into the result of a merge gives that result again.
C10_UpsertIdempotent ==
    upsert_calls = 2 => merged = merged_once

C10_Witness ==
    /\ upsert_calls = 2
    /\ Len(merged) = 2
    /\ \E i \in 1..Len(existing_ads), j \in 1..Len(new_ads) :
          /\ HasKey(existing_ads[i]) /\ HasKey(new_ads[j])
          /\ AdKey(existing_ads[i]) = AdKey(new_ads[j])
          /\ existing_ads[i] # new_ads[j]
    /\ \E j \in 1..Len(new_ads) : ~Kept(AdDate(new_ads[j]), CutoffDate(reference_date))

\* The arguments of the first call as one list, existing_ads first.
InputAds == existing_ads \o new_ads
MergedKeys == {AdKey(merged_once[k]) : k \in 1..Len(merged_once)}
IsLastWithKey(ads, i) ==
    /\ HasKey(ads[i])
    /\ \A j \in (i + 1)..Len(ads) : ~(HasKey(ads[j]) /\ AdKey(ads[j]) = AdKey(ads[i]))

\* C11: the merged list holds at most one row per (ad_id, date), and that row
\* is the last one with that key in existing_ads followed by new_ads.
C11_LastRecordWins ==
    upsert_calls >= 1 =>
        /\ \A i, j \in 1..Len(merged_once) :
               i # j => AdKey(merged_once[i]) # AdKey(merged_once[j])
        /\ \A k \in 1..Len(merged_once) :
               \E i \in 1..Len(InputAds) :
                   IsLastWithKey(InputAds, i) /\ merged_once[k] = InputAds[i]

C11_Witness ==
    /\ upsert_calls >= 1
    /\ Len(new_ads) = 2
    /\ HasKey(new_ads[1]) /\ HasKey(new_ads[2])
    /\ AdKey(new_ads[1]) = AdKey(new_ads[2])
    /\ new_ads[1] # new_ads[2]
    /\ \E i \in 1..Len(existing_ads) :
          /\ HasKey(existing_ads[i])
          /\ AdKey(existing_ads[i]) = AdKey(new_ads[2])
          /\ existing_ads[i] # new_ads[2]
    /\ merged_once = <<new_ads[2]>>

\* Whole days from date d to the reference date.
DaysBefore(ref, d) == ToOrdinal(ref) - ToOrdinal(d)

\* C12: a keyed row's key survives the merge exactly when its date is at most
\* 90 days before the reference date, whichever list the row came from.
C12_RetentionBoundary ==
    upsert_calls >= 1 =>
        \A i \in 1..Len(InputAds) :
            HasKey(InputAds[i]) =>
                (AdKey(InputAds[i]) \in MergedKeys
                    <=> DaysBefore(reference_date, AdDate(InputAds[i])) <= 90)

C12_Witness ==
    /\ upsert_calls >= 1
    /\ \E i \in 1..Len(existing_ads) :
          /\ HasKey(existing_ads[i])
          /\ DaysBefore(reference_date, AdDate(existing_ads[i])) = 90
          /\ AdKey(existing_ads[i]) \in MergedKeys
    /\ \E j \in 1..Len(new_ads) :
          /\ HasKey(new_ads[j])
          /\ DaysBefore(reference_date, AdDate(new_ads[j])) = 91
          /\ AdKey(new_ads[j]) \notin MergedKeys

(***************************************************************************)
(* sync_account_data.  A step ends where the run calls a collaborator      *)
(* whose answer is an input: the provider, the transform, the store.       *)
(***************************************************************************)
ReferenceDate(t) == MinusDays(t, 1)

\* The calls a run makes on its collaborators: storage.get_object of the raw
\* dataset, meta_client.get_insights_daily over a window,
\* meta_client.enrich_ads_with_creatives, storage.put_object of a file.
StoreGet == [op |-> "get", key |-> "baseline_daily.json", since |-> NoDate, until |-> NoDate]
StorePut(file) == [op |-> "put", key |-> file, since |-> NoDate, until |-> NoDate]
InsightsCall(since, until) == [op |-> "insights", key |-> "", since |-> since, until |-> until]
CreativesCall == [op |-> "creatives", key |-> "", since |-> NoDate, until |-> NoDate]
\* The same call when it raised, the exception being swallowed at lines 298-301.
CreativesRaised == [op |-> "creatives", key |-> "raised", since |-> NoDate, until |-> NoDate]

\* Steps 1-3 come before step 5: the raw dataset is read only once the
\* account, the token and the decryption are in hand.
CallsAtStartMutant(cred_ok) == <<StoreGet>>
CallsAtStart(cred_ok) == IF cred_ok THEN <<StoreGet>> ELSE <<>>
RunEnd == sync_pc \in {"idle", "done", "failed"}

AbortMutant(msg) ==
    /\ sync_error' = msg
    /\ sync_pc' = "enrich"
Abort(msg) ==
    /\ sync_error' = msg
    /\ sync_pc' = "failed"

\* Steps 1-6: the account and token lookups and the decryption (cred_ok), then
\* the reference date, the prior dataset, the mode and the first fetch window.
SyncStart(t, cred_ok) ==
    /\ RunEnd
    /\ run_no < MaxRuns
    /\ run_no' = run_no + 1
    /\ store_before' = store
    /\ daily_insights' = <<>>
    /\ all_daily_ads' = <<>>
    /\ files_written' = <<>>
    /\ today' = t
    /\ calls' = CallsAtStart(cred_ok)
    /\ IF ~cred_ok
       THEN /\ Abort("RefreshError: credentials")
            /\ existing_baseline' = NoBaseline
            /\ refresh_mode' = ""
            /\ days_to_fetch' = 0
            /\ chunk_start' = NoDate
       ELSE LET baseline == LoadExistingBaseline(store.raw)
                decision == DetermineRefreshMode(baseline, ReferenceDate(t))
            IN  /\ existing_baseline' = baseline
                /\ refresh_mode' = decision[1]
                /\ days_to_fetch' = decision[2]
                /\ chunk_start' = MinusDays(t, decision[2])
                /\ sync_pc' = "fetch"
                /\ sync_error' = ""
    /\ UNCHANGED <<store, restOfSync>>

\* chunk_end = min(chunk_start + timedelta(days=CHUNK_SIZE_DAYS - 1), end_date)
ChunkEndMutant(cs, end) ==
    LET e == ToOrdinal(cs) + CHUNK_SIZE_DAYS
    IN  IF e <= ToOrdinal(end) THEN FromOrdinal(e) ELSE end
ChunkEnd(cs, end) ==
    LET e == ToOrdinal(cs) + CHUNK_SIZE_DAYS - 1
    IN  IF e <= ToOrdinal(end) THEN FromOrdinal(e) ELSE end

\* The since_date and until_date of the get_insights_daily call about to be
\* made: a chunk of the window, or the whole window (step 6).
NextInsightsCall ==
    IF days_to_fetch > CHUNK_SIZE_DAYS
    THEN InsightsCall(chunk_start, ChunkEnd(chunk_start, ReferenceDate(today)))
    ELSE InsightsCall(MinusDays(today, days_to_fetch), ReferenceDate(today))

\* daily_insights.extend(chunk_data)
ExtendMutant(acc, chunk_data) == chunk_data \o acc
Extend(acc, chunk_data) == acc \o chunk_data

\* Step 7: one get_insights_daily call returns rows.
FetchRows(rows) ==
    /\ sync_pc = "fetch"
    /\ calls' = Append(calls, NextInsightsCall)
    /\ IF days_to_fetch > CHUNK_SIZE_DAYS
       THEN LET end  == ReferenceDate(today)
                next == FromOrdinal(ToOrdinal(ChunkEnd(chunk_start, end)) + 1)
            IN  /\ daily_insights' = Extend(daily_insights, rows)
                /\ chunk_start' = next
                /\ sync_pc' = IF ToOrdinal(next) <= ToOrdinal(end) THEN "fetch" ELSE "enrich"
       ELSE /\ daily_insights' = rows
            /\ sync_pc' = "enrich"
            /\ UNCHANGED chunk_start
    /\ UNCHANGED <<store, store_before, run_no, today, existing_baseline, refresh_mode,
                   days_to_fetch, all_daily_ads, files_written, sync_error, restOfSync>>

\* Step 7: the call raises.  Only MetaAPIError is turned into RefreshError;
\* anything else _request_with_retry lets through leaves the run as it is.
FetchFails(exc) ==
    /\ sync_pc = "fetch"
    /\ calls' = Append(calls, NextInsightsCall)
    /\ Abort(IF exc = "MetaAPIError" THEN "RefreshError: Meta API error" ELSE exc)
    /\ UNCHANGED <<store, store_before, run_no, today, existing_baseline, refresh_mode,
                   days_to_fetch, chunk_start, daily_insights, all_daily_ads,
                   files_written, restOfSync>>

\* Step 10
MergeStepMutant(mode, baseline, rows, ref) == rows
MergeStep(mode, baseline, rows, ref) ==
    IF mode = "TAIL" /\ baseline.kind # "none"
    THEN UpsertDailyAds(baseline.daily_ads, rows, ref)
    ELSE rows

\* Steps 8-10: the enrichment, then the merge.  enriched says whether
\* enrich_ads_with_creatives returned or raised; the except clause swallows the
\* failure, and the rows carry no creative fields here, so both continue alike.
AfterEnrichMutant(enriched) == IF enriched THEN NextStage("enrich") ELSE "failed"
AfterEnrich(enriched) == NextStage("enrich")

Enrich(enriched) ==
    /\ sync_pc = "enrich"
    /\ calls' = Append(calls, IF enriched THEN CreativesCall ELSE CreativesRaised)
    /\ all_daily_ads' = MergeStep(refresh_mode, existing_baseline, daily_insights,
                                  ReferenceDate(today))
    /\ sync_pc' = AfterEnrich(enriched)
    /\ UNCHANGED <<store, store_before, run_no, today, existing_baseline, refresh_mode,
                   days_to_fetch, chunk_start, daily_insights, files_written,
                   sync_error, restOfSync>>

\* Step 11: transform_to_columnar returns or raises.
Transform(ok) ==
    /\ sync_pc = "transform"
    /\ UNCHANGED calls
    /\ IF ok THEN sync_pc' = NextStage("transform") /\ UNCHANGED sync_error
       ELSE Abort("RefreshError: Transform error")
    /\ UNCHANGED <<store, store_before, run_no, today, existing_baseline, refresh_mode,
                   days_to_fetch, chunk_start, daily_insights, all_daily_ads,
                   files_written, restOfSync>>

\* Step 12: validate_columnar_format returns a list of errors, empty or not.
Validate(no_errors) ==
    /\ sync_pc = "validate"
    /\ UNCHANGED calls
    /\ IF no_errors THEN sync_pc' = NextStage("validate") /\ UNCHANGED sync_error
       ELSE Abort("RefreshError: Validation failed")
    /\ UNCHANGED <<store, store_before, run_no, today, existing_baseline, refresh_mode,
                   days_to_fetch, chunk_start, daily_insights, all_daily_ads,
                   files_written, restOfSync>>

\* The baseline_data of step 13.
RunBaselineDataMutant == RawOf("doc", NoMeta, all_daily_ads)
RunBaselineData ==
    BaselineData(ReferenceDate(today), refresh_mode, days_to_fetch, all_daily_ads)

\* Step 13: put_object of baseline_daily.json succeeds or raises StorageError.
WriteRaw(ok) ==
    /\ sync_pc = "write_raw"
    /\ calls' = Append(calls, StorePut("baseline_daily.json"))
    /\ IF ok
       THEN /\ store' = [store EXCEPT !.raw = RunBaselineData]
            /\ files_written' = Append(files_written, "baseline_daily.json")
            /\ sync_pc' = NextStage("write_raw")
            /\ UNCHANGED sync_error
       ELSE /\ Abort("RefreshError: Failed to write baseline_daily.json")
            /\ UNCHANGED <<store, files_written>>
    /\ UNCHANGED <<store_before, run_no, today, existing_baseline, refresh_mode,
                   days_to_fetch, chunk_start, daily_insights, all_daily_ads, restOfSync>>

ShardStages == {"write_meta", "write_agg", "write_summary"}
ShardFile(stage) ==
    CASE stage = "write_meta"     -> "meta_v1.json"
      [] stage = "write_agg"      -> "agg_v1.json"
      [] stage = "write_summary"  -> "summary_v1.json"
      [] stage = "write_manifest" -> "manifest.json"

PutShard(st, stage, n) ==
    CASE stage = "write_meta"     -> [st EXCEPT !.meta = n]
      [] stage = "write_agg"      -> [st EXCEPT !.agg = n]
      [] stage = "write_summary"  -> [st EXCEPT !.summary = n]
      [] stage = "write_manifest" -> [st EXCEPT !.manifest = n]

\* Steps 14-16: one put_object of a shard or of the manifest; after the
\* manifest the run commits last_refresh_at and returns.
WriteShard(ok) ==
    /\ sync_pc \in ShardStages \cup {"write_manifest"}
    /\ calls' = Append(calls, StorePut(ShardFile(sync_pc)))
    /\ IF ok
       THEN /\ store' = PutShard(store, sync_pc, run_no)
            /\ files_written' = Append(files_written, ShardFile(sync_pc))
            /\ sync_pc' = NextStage(sync_pc)
            /\ UNCHANGED sync_error
       ELSE /\ Abort("RefreshError: Failed to write shard")
            /\ UNCHANGED <<store, files_written>>
    /\ UNCHANGED <<store_before, run_no, today, existing_baseline, refresh_mode,
                   days_to_fetch, chunk_start, daily_insights, all_daily_ads, restOfSync>>

SyncInit ==
    /\ MonitorInit
    /\ EnrichIdle
    /\ PagingIdle
    /\ JobsIdle
    /\ BackoffIdle
    /\ ClientIdle
    /\ ParseIdle
    /\ UpsertIdle
    /\ store \in {[EmptyStore EXCEPT !.raw = r] : r \in InitialRaw}
    /\ store_before = store
    /\ sync_pc = "idle"
    /\ run_no = 0
    /\ RunReset

SyncNext ==
    \/ \E t \in Todays, cred_ok \in BOOLEAN : SyncStart(t, cred_ok)
    \/ \E rows \in FetchedLists : FetchRows(rows)
    \/ \E exc \in {"MetaAPIError", "TypeError", "ConnectTimeout"} : FetchFails(exc)
    \/ \E enriched \in BOOLEAN : Enrich(enriched)
    \/ \E ok \in BOOLEAN : Transform(ok)
    \/ \E no_errors \in BOOLEAN : Validate(no_errors)
    \/ \E ok \in BOOLEAN : WriteRaw(ok)
    \/ \E ok \in BOOLEAN : WriteShard(ok)

SpecSync == SyncInit /\ [][SyncNext]_vars

NoDuplicateKeys(ads) ==
    \A i, j \in 1..Len(ads) :
        (i # j /\ HasKey(ads[i]) /\ HasKey(ads[j])) => AdKey(ads[i]) # AdKey(ads[j])
IsInsightsCall(c) == c.op = "insights"
IsPut(c) == c.op = "put"
InsightsCalls == SelectSeq(calls, IsInsightsCall)
Puts == SelectSeq(calls, IsPut)
\* The run got past step 5 (it did not fail on the account, token or decryption).
PastAuth == sync_pc # "idle" /\ sync_error # "RefreshError: credentials"
\* The run got past step 7: every get_insights_daily call returned.
FetchDone == \E i \in 1..Len(calls) : calls[i].op = "creatives"
\* The run wrote the raw dataset.
RawWritten == Len(files_written) >= 1

\* C13 (as stated): the persisted raw dataset never holds two rows with the
\* same (ad_id, date) key.
C13_NoDuplicateKeysPersisted ==
    store.raw.kind = "doc" => NoDuplicateKeys(store.raw.daily_ads)

\* C14 (as stated): the dataset a BASELINE run persists is the upsert of the
\* fetched rows into an empty list at the run's reference date.
C14_BaselineIsUpsertFromEmpty ==
    (refresh_mode = "BASELINE" /\ RawWritten) =>
        store.raw.daily_ads = UpsertDailyAds(<<>>, daily_insights, ReferenceDate(today))

\* C15: the run is in BASELINE mode with a 90-day window exactly when there is
\* no prior dataset, or its metadata has no reference date, or that date does
\* not parse, or it is later than the run's reference date; otherwise it is in
\* TAIL mode with a 3-day window, however old the prior reference date.
C15_ModeDecision ==
    PastAuth =>
        LET prior == existing_baseline.metadata.reference_date
            ref   == ReferenceDate(today)
        IN  IF \/ existing_baseline = NoBaseline
               \/ prior = NoDate
               \/ prior = BadDate
               \/ (prior # ref /\ DateGE(prior, ref))
            THEN refresh_mode = "BASELINE" /\ days_to_fetch = 90
            ELSE refresh_mode = "TAIL" /\ days_to_fetch = 3

C15_Witness ==
    /\ PastAuth
    /\ refresh_mode = "TAIL"
    /\ days_to_fetch = 3
    /\ DaysBefore(ReferenceDate(today), existing_baseline.metadata.reference_date) > 300

\* C16: when the raw-dataset key is missing, undecodable, not JSON or lacks a
\* section, the load yields no prior dataset, the run is in BASELINE mode, and
\* if the run fails it fails at the fetch or later.
C16_LoadNeverAborts ==
    (PastAuth /\ store_before.raw.kind # "doc") =>
        /\ existing_baseline = NoBaseline
        /\ refresh_mode = "BASELINE"
        /\ days_to_fetch = 90
        /\ Len(InsightsCalls) >= 1 \/ sync_pc = "fetch"

C16_Witness ==
    /\ sync_pc = "done"
    /\ store_before.raw.kind = "corrupt"
    /\ store.raw.kind = "doc"
    /\ store.raw.metadata.mode = "BASELINE"

\* C17: once the fetch is complete, the windows of the get_insights_daily calls
\* start days_to_fetch days before today, end at the reference date, follow one
\* another without gap or overlap, are 30 days long except possibly the last,
\* and are 3 for a 90-day fetch and 1 for a fetch of 30 days or less.
C17_FetchWindows ==
    FetchDone =>
        LET w      == InsightsCalls
            n      == Len(w)
            ref    == ReferenceDate(today)
            len(i) == ToOrdinal(w[i].until) - ToOrdinal(w[i].since) + 1
        IN  /\ n >= 1
            /\ ToOrdinal(w[1].since) = ToOrdinal(ref) - days_to_fetch + 1
            /\ w[n].until = ref
            /\ \A i \in 1..n : len(i) >= 1 /\ len(i) <= 30
            /\ \A i \in 1..(n - 1) :
                   /\ len(i) = 30
                   /\ ToOrdinal(w[i + 1].since) = ToOrdinal(w[i].until) + 1
            /\ days_to_fetch = 90 => n = 3
            /\ days_to_fetch <= 30 => n = 1

C17_Witness ==
    /\ FetchDone
    /\ days_to_fetch = 90
    /\ Len(InsightsCalls) = 3
    /\ InsightsCalls[1].since = Date(2024, 1, 3)
    /\ InsightsCalls[2].until = Date(2024, 3, 2)

\* C18: when get_insights_daily raises MetaAPIError the run ends with a
\* RefreshError, has called put_object not once, and leaves the raw dataset,
\* the shards and the manifest as they were; no merge has taken place.
C18_FetchErrorWritesNothing ==
    sync_error = "RefreshError: Meta API error" =>
        /\ sync_pc = "failed"
        /\ store = store_before
        /\ Puts = <<>>
        /\ all_daily_ads = <<>>

C18_Witness ==
    /\ sync_error = "RefreshError: Meta API error"
    /\ Len(InsightsCalls) = 3
    /\ daily_insights # <<>>
    /\ store = store_before
    /\ store.raw.kind = "missing"

\* C19: when validation reports an error the run ends with a RefreshError and
\* the three shards and the manifest keep the values they had before the run.
C19_ValidationErrorKeepsShards ==
    sync_error = "RefreshError: Validation failed" =>
        /\ sync_pc = "failed"
        /\ store.meta = store_before.meta
        /\ store.agg = store_before.agg
        /\ store.summary = store_before.summary
        /\ store.manifest = store_before.manifest
        /\ \A i \in 1..Len(calls) : calls[i] # StorePut("meta_v1.json")

C19_Witness ==
    /\ sync_error = "RefreshError: Validation failed"
    /\ run_no = 2
    /\ store.meta = 1 /\ store.agg = 1 /\ store.summary = 1 /\ store.manifest = 1

\* C20: when the account or the token is not found or the token does not
\* decrypt, the run ends with a RefreshError having made no store call and no
\* provider call.
C20_CredentialErrorBeforeAnyCall ==
    sync_error = "RefreshError: credentials" =>
        /\ sync_pc = "failed"
        /\ calls = <<>>
        /\ store = store_before

C20_Witness ==
    /\ sync_error = "RefreshError: credentials"
    /\ run_no = 2
    /\ store.raw.kind = "doc"
    /\ store.manifest = 1

\* The files of a run in the order of steps 13-15.
WriteOrder ==
    <<"baseline_daily.json", "meta_v1.json", "agg_v1.json", "summary_v1.json",
      "manifest.json">>
WriteErrors ==
    {"RefreshError: Failed to write baseline_daily.json", "RefreshError: Failed to write shard"}

\* C21: the put_object calls of a run follow the order raw dataset, meta,
\* agg, summary, manifest; every call but a failed last one succeeded; a
\* failed call ends the run with a RefreshError and is the last call; so the
\* manifest is written only after the raw dataset and the three shards were.
C21_WritesInOrder ==
    /\ Len(Puts) <= Len(WriteOrder)
    /\ \A i \in 1..Len(Puts) : Puts[i].key = WriteOrder[i]
    /\ \A i \in 1..Len(files_written) : files_written[i] = WriteOrder[i]
    /\ IF sync_error \in WriteErrors
       THEN sync_pc = "failed" /\ Len(Puts) = Len(files_written) + 1
       ELSE Len(Puts) = Len(files_written)
    /\ (\E i \in 1..Len(files_written) : files_written[i] = "manifest.json") =>
          /\ files_written = WriteOrder
          /\ store.raw = RunBaselineData
          /\ store.meta = run_no /\ store.agg = run_no /\ store.summary = run_no
          /\ store.manifest = run_no

C21_Witness ==
    /\ sync_error = "RefreshError: Failed to write shard"
    /\ files_written = <<"baseline_daily.json", "meta_v1.json", "agg_v1.json">>
    /\ Len(Puts) = 4
    /\ run_no = 2
    /\ store.meta = 2 /\ store.summary = 1 /\ store.manifest = 1

(***************************************************************************)
(* MetaClient.enrich_ads_with_creatives and fetch_creatives_batch.         *)
(* A row is its ad_id, a positive number, or NoAdId when it has none.      *)
(***************************************************************************)
CreativeBatchSize == 50
MaxConcurrentBatches == 25

NoAdId == 0
Min2(a, b) == IF a <= b THEN a ELSE b
RangeOf(f) == {f[i] : i \in DOMAIN f}
Reverse(q) == [i \in 1..Len(q) |-> q[Len(q) + 1 - i]]

\* The rows with ad_ids 1..n, one row each.
RowsUpTo(n) == [i \in 1..n |-> i]
\* Numbers of distinct ad_ids: none, one batch, the batch limit and one more,
\* 25 full batches and one id more.
InputSizes ==
    {0, 1, CreativeBatchSize, CreativeBatchSize + 1,
     CreativeBatchSize * MaxConcurrentBatches,
     CreativeBatchSize * MaxConcurrentBatches + 1}
\* What may follow them: a second row of ad 1 and a row without ad_id.
InputTails == {<<>>, <<1, NoAdId>>}
EnrichInputs == {RowsUpTo(n) \o tail : n \in InputSizes, tail \in InputTails}

\* set(ad['ad_id'] for ad in ads if 'ad_id' in ad)
DistinctIds(rows) == RangeOf(rows) \ {NoAdId}
\* list(set(...)): the order is the set's; two orders are modelled.
Ascending(S) ==
    LET top     == IF S = {} THEN 0 ELSE CHOOSE x \in S : \A y \in S : y <= x
        InS(x)  == x \in S
    IN  SelectSeq([i \in 1..top |-> i], InS)
ListingsOf(S) == {Ascending(S), Reverse(Ascending(S))}

\* batches = [ad_ids[i:i+50] for i in range(0, len(ad_ids), 50)]
BatchesOfMutant(ids) ==
    [b \in 1..((Len(ids) + CreativeBatchSize - 1) \div CreativeBatchSize) |->
        SubSeq(ids, (b - 1) * CreativeBatchSize + 1,
               Min2(b * CreativeBatchSize + 1, Len(ids)))]
BatchesOf(ids) ==
    [b \in 1..((Len(ids) + CreativeBatchSize - 1) \div CreativeBatchSize) |->
        SubSeq(ids, (b - 1) * CreativeBatchSize + 1,
               Min2(b * CreativeBatchSize, Len(ids)))]

\* chunk = batches[chunk_start:chunk_start+25], as batch numbers from 1
ChunkOf(bs, start) == (start + 1)..Min2(start + MaxConcurrentBatches, Len(bs))

\* How a fetch_creatives_batch call may end: "ok" (status 200, every item
\* code 200), "partial" (status 200, the first item's code is not 200),
\* "failed" (a status other than 200, or an exception: both return {}).
\* Only the batches named here may end otherwise than "ok".
FailableBatches == {1, 2, MaxConcurrentBatches + 1}
BatchOutcomes(b) == IF b \in FailableBatches THEN {"ok", "partial", "failed"} ELSE {"ok"}
\* The keys of the dict the call returns.
IdsReturned(batch, outcome) ==
    CASE outcome = "ok"      -> RangeOf(batch)
      [] outcome = "partial" -> RangeOf(batch) \ {batch[1]}
      [] OTHER               -> {}

\* results = await asyncio.gather(*tasks, return_exceptions=True) followed by
\* the loop of creative_data.update(result): the keys a chunk adds.
ChunkDataMutant(bs, results, chunk) ==
    IF \E b \in chunk : results[b] = "failed" THEN {}
    ELSE UNION {IdsReturned(bs[b], results[b]) : b \in chunk}
ChunkData(bs, results, chunk) ==
    UNION {IdsReturned(bs[b], results[b]) : b \in chunk}

\* The creative fields of a row after the last loop.
CreativeOf(id) ==
    [ad_id |-> id, status |-> "ACTIVE", effective_status |-> "ACTIVE",
     format |-> "VIDEO", media_url |-> "url"]
DefaultsOf(id) ==
    [ad_id |-> id, status |-> "UNKNOWN", effective_status |-> "UNKNOWN",
     format |-> "UNKNOWN", media_url |-> ""]
EnrichedRows(rows, data) ==
    [i \in 1..Len(rows) |->
        IF rows[i] # NoAdId /\ rows[i] \in data THEN CreativeOf(rows[i])
        ELSE DefaultsOf(rows[i])]

\* Launching a chunk: one task per batch of the chunk, then the await on gather.
LaunchChunk(bs, start) ==
    /\ batch_chunk_start' = start
    /\ in_flight' = ChunkOf(bs, start)
    /\ batch_results' =
          [b \in 1..Min2(start + MaxConcurrentBatches, Len(bs)) |->
              IF b \in DOMAIN batch_results THEN batch_results[b] ELSE "pending"]

\* The call up to its first await, or to its return when there is none.
EnrichStart ==
    /\ enrich_pc = "start"
    /\ IF input_ads = <<>>
       THEN /\ enriched_ads' = input_ads
            /\ enrich_pc' = "done"
            /\ UNCHANGED <<ad_ids, batches, batch_chunk_start, in_flight, batch_results>>
       ELSE \E ids \in ListingsOf(DistinctIds(input_ads)) :
               /\ ad_ids' = ids
               /\ batches' = BatchesOf(ids)
               /\ IF Len(BatchesOf(ids)) = 0
                  THEN /\ enriched_ads' = EnrichedRows(input_ads, {})
                       /\ enrich_pc' = "done"
                       /\ UNCHANGED <<batch_chunk_start, in_flight, batch_results>>
                  ELSE /\ LaunchChunk(BatchesOf(ids), 0)
                       /\ enrich_pc' = "gather"
                       /\ UNCHANGED enriched_ads
    /\ UNCHANGED <<input_ads, creative_data, restOfEnrich>>

\* One fetch_creatives_batch task ends.  Of the tasks in flight the one with
\* the lowest or the highest batch number ends next.
BatchReturns(b, outcome) ==
    /\ enrich_pc = "gather"
    /\ b \in in_flight
    /\ \/ \A c \in in_flight : b <= c
       \/ \A c \in in_flight : b >= c
    /\ outcome \in BatchOutcomes(b)
    /\ in_flight' = in_flight \ {b}
    /\ batch_results' = [batch_results EXCEPT ![b] = outcome]
    /\ UNCHANGED <<input_ads, ad_ids, batches, batch_chunk_start, creative_data,
                   enrich_pc, enriched_ads, restOfEnrich>>

\* gather returns once every task of the chunk has ended; the results are
\* folded into creative_data and the next chunk is launched, or the rows are
\* filled in and returned.
GatherReturns ==
    /\ enrich_pc = "gather"
    /\ in_flight = {}
    /\ LET data == creative_data \cup
                   ChunkData(batches, batch_results, ChunkOf(batches, batch_chunk_start))
           next == batch_chunk_start + MaxConcurrentBatches
       IN  /\ creative_data' = data
           /\ IF next < Len(batches)
              THEN /\ LaunchChunk(batches, next)
                   /\ UNCHANGED <<enrich_pc, enriched_ads>>
              ELSE /\ enriched_ads' = EnrichedRows(input_ads, data)
                   /\ enrich_pc' = "done"
                   /\ UNCHANGED <<batch_chunk_start, in_flight, batch_results>>
    /\ UNCHANGED <<input_ads, ad_ids, batches, restOfEnrich>>

EnrichInit ==
    /\ MonitorInit
    /\ ClientIdle
    /\ ParseIdle
    /\ UpsertIdle
    /\ SyncIdle
    /\ PagingIdle
    /\ JobsIdle
    /\ BackoffIdle
    /\ input_ads \in EnrichInputs
    /\ ad_ids = <<>>
    /\ batches = <<>>
    /\ batch_chunk_start = 0
    /\ in_flight = {}
    /\ batch_results = <<>>
    /\ creative_data = {}
    /\ enrich_pc = "start"
    /\ enriched_ads = <<>>

EnrichNext ==
    \/ EnrichStart
    \/ \E b \in in_flight, outcome \in {"ok", "partial", "failed"} : BatchReturns(b, outcome)
    \/ GatherReturns

SpecEnrich == EnrichInit /\ [][EnrichNext]_vars

\* The number of ids over all batches.
RECURSIVE TotalLen(_, _)
TotalLen(bs, b) == IF b > Len(bs) THEN 0 ELSE Len(bs[b]) + TotalLen(bs, b + 1)
BatchedIds == UNION {RangeOf(batches[b]) : b \in 1..Len(batches)}

\* C22: once the batches are cut, every distinct ad_id of the rows is in
\* exactly one batch, every batch holds 1 to 50 ids, at most 25 batches are
\* in flight, and they all belong to the current chunk, every batch of the
\* chunks before having ended.
C22_BatchesAndConcurrency ==
    enrich_pc \in {"gather", "done"} =>
        /\ BatchedIds = DistinctIds(input_ads)
        /\ TotalLen(batches, 1) = Cardinality(DistinctIds(input_ads))
        /\ \A b \in 1..Len(batches) : Len(batches[b]) >= 1 /\ Len(batches[b]) <= 50
        /\ Cardinality(in_flight) <= 25
        /\ in_flight \subseteq ChunkOf(batches, batch_chunk_start)
        /\ \A b \in DOMAIN batch_results :
               b <= batch_chunk_start => batch_results[b] # "pending"

C22_Witness ==
    /\ enrich_pc = "gather"
    /\ Len(batches) = 26
    /\ batch_chunk_start = 25
    /\ in_flight = {26}
    /\ Len(batches[26]) = 1
    /\ Len(input_ads) > Cardinality(DistinctIds(input_ads))

\* C23: when the call returns, every batch was launched and has ended, a
\* failed batch took nothing from the others, each row whose ad_id is a key
\* of some batch's result carries the creative fields, and every other row,
\* the rows without ad_id included, carries the defaults UNKNOWN, UNKNOWN,
\* UNKNOWN and the empty media_url.
C23_FailedBatchIsolated ==
    (enrich_pc = "done" /\ input_ads # <<>>) =>
        LET got == UNION {IdsReturned(batches[b], batch_results[b]) : b \in 1..Len(batches)}
        IN  /\ in_flight = {}
            /\ DOMAIN batch_results = 1..Len(batches)
            /\ \A b \in 1..Len(batches) : batch_results[b] # "pending"
            /\ Len(enriched_ads) = Len(input_ads)
            /\ \A i \in 1..Len(input_ads) :
                   IF input_ads[i] \in got
                   THEN enriched_ads[i] = CreativeOf(input_ads[i])
                   ELSE /\ enriched_ads[i].ad_id = input_ads[i]
                        /\ enriched_ads[i].status = "UNKNOWN"
                        /\ enriched_ads[i].effective_status = "UNKNOWN"
                        /\ enriched_ads[i].format = "UNKNOWN"
                        /\ enriched_ads[i].media_url = ""

C23_Witness ==
    /\ enrich_pc = "done"
    /\ Len(batches) = 2
    /\ batch_results[1] = "failed"
    /\ batch_results[2] = "ok"
    /\ \E i, j, k \in 1..Len(input_ads) :
          /\ input_ads[i] \in RangeOf(batches[1])
          /\ enriched_ads[i].format = "UNKNOWN"
          /\ input_ads[j] \in RangeOf(batches[2])
          /\ enriched_ads[j].format = "VIDEO"
          /\ input_ads[k] = NoAdId
          /\ enriched_ads[k].media_url = ""

\* C24: once the enrichment has been called, whether it returned or raised,
\* the run is past it and fails, if it does, on the transform, the validation
\* or a write; the merge received the fetched rows as they were (in BASELINE
\* mode the merged list is that list, same length and order); and a run with
\* no prior dataset and 5 fetched rows that completes has persisted 5 rows in
\* BASELINE mode.
C24_EnrichmentNeverAborts ==
    FetchDone =>
        /\ sync_pc # "enrich"
        /\ sync_pc = "failed" =>
              sync_error \in {"RefreshError: Transform error",
                              "RefreshError: Validation failed"} \cup WriteErrors
        /\ all_daily_ads = MergeStep(refresh_mode, existing_baseline, daily_insights,
                                     ReferenceDate(today))
        /\ refresh_mode = "BASELINE" => all_daily_ads = daily_insights
        /\ (store_before.raw.kind = "missing" /\ Len(daily_insights) = 5 /\ sync_pc = "done") =>
              /\ refresh_mode = "BASELINE"
              /\ Len(store.raw.daily_ads) = 5
              /\ store.raw.metadata.total_daily_rows = 5
              /\ store.raw.metadata.mode = "BASELINE"

C24_Witness ==
    /\ sync_pc = "done"
    /\ \E i \in 1..Len(calls) : calls[i] = CreativesRaised
    /\ store_before.raw.kind = "missing"
    /\ Len(daily_insights) = 5
    /\ Len(store.raw.daily_ads) = 5

(***************************************************************************)
(* The pagination loop of get_ad_accounts, get_insights_daily and          *)
(* get_demographics.  A page is [has_data, data, next]: whether the body   *)
(* has a "data" key, its rows, and the cursor: "url", "" (a "next" key     *)
(* with an empty value) or "absent".                                       *)
(***************************************************************************)
Endpoints == {"get_ad_accounts", "get_insights_daily", "get_demographics"}

\* max_pages
MaxPagesOf(e) ==
    CASE e = "get_ad_accounts"    -> 50
      [] e = "get_insights_daily" -> 200
      [] e = "get_demographics"   -> 50

\* Only these pages may come without a "data" key.
PagesWithoutData == {1, 2}
\* The rows of page k are the single row k.
Page(k, has_data, next) ==
    [has_data |-> has_data, data |-> IF has_data THEN <<k>> ELSE <<>>, next |-> next]

\* while next_url and page_count < max_pages
ContinuePagingMutant(url, count, max) == url # "" /\ count <= max
ContinuePaging(url, count, max) == url # "" /\ count < max

\* One iteration: the request returns a page.
PageReturns(has_data, next) ==
    /\ paging_pc = "loop"
    /\ has_data \/ (Len(page_log) + 1) \in PagesWithoutData
    /\ LET page == Page(Len(page_log) + 1, has_data, next)
           url  == IF next = "absent" THEN next_url ELSE next
           cnt  == IF next = "absent" THEN page_count ELSE page_count + 1
       IN  /\ page_log' = Append(page_log, page)
           /\ all_results' = IF has_data THEN all_results \o page.data ELSE all_results
           /\ next_url' = url
           /\ page_count' = cnt
           /\ paging_pc' = IF next # "absent" /\ ContinuePaging(url, cnt, MaxPagesOf(endpoint))
                           THEN "loop" ELSE "done"
    /\ UNCHANGED <<endpoint, restOfPaging>>

\* One iteration: _request_with_retry raises and the listing raises with it.
PageRaises ==
    /\ paging_pc = "loop"
    /\ paging_pc' = "raised"
    /\ UNCHANGED <<endpoint, next_url, page_count, all_results, page_log, restOfPaging>>

PagingInit ==
    /\ MonitorInit
    /\ ClientIdle
    /\ ParseIdle
    /\ UpsertIdle
    /\ SyncIdle
    /\ EnrichIdle
    /\ JobsIdle
    /\ BackoffIdle
    /\ endpoint \in Endpoints
    /\ next_url = "url"
    /\ page_count = 0
    /\ all_results = <<>>
    /\ page_log = <<>>
    /\ paging_pc = "loop"

PagingNext ==
    \/ \E has_data \in BOOLEAN, next \in {"url", "", "absent"} : PageReturns(has_data, next)
    \/ PageRaises

SpecPaging == PagingInit /\ [][PagingNext]_vars

\* The rows of the pages of a log, in page order (a page has one row or none).
HasData(page) == page.data # <<>>
DataOfPages(log) ==
    LET withData == SelectSeq(log, HasData)
    IN  [i \in 1..Len(withData) |-> withData[i].data[1]]

\* C25: a listing requests at most 50 pages (accounts, demographics) or 200
\* (daily insights); every page before the last carried a next cursor; when
\* it returns, the last page carried no cursor or the cap was reached, and
\* the result is the data of the requested pages in page order.
C25_PagingStopsAndConcatenates ==
    /\ Len(page_log) <= (IF endpoint = "get_insights_daily" THEN 200 ELSE 50)
    /\ \A k \in 1..(Len(page_log) - 1) : page_log[k].next = "url"
    /\ paging_pc = "done" =>
          /\ Len(page_log) >= 1
          /\ \/ page_log[Len(page_log)].next \in {"", "absent"}
             \/ Len(page_log) = (IF endpoint = "get_insights_daily" THEN 200 ELSE 50)
          /\ all_results = DataOfPages(page_log)

C25_Witness ==
    /\ paging_pc = "done"
    /\ endpoint = "get_insights_daily"
    /\ Len(page_log) = 200
    /\ page_log[200].next = "url"
    /\ ~page_log[2].has_data
    /\ Len(all_results) = 199

(***************************************************************************)
(* AsyncRateLimitMonitor.get_recommended_concurrency on a drawn             *)
(* global_usage.                                                           *)
(***************************************************************************)
MaxUsagePct == 120      \* largest global_usage drawn

GetRecommendedConcurrencyMutant(g) ==
    IF g > 80 THEN 2
    ELSE IF g > 60 THEN 3
    ELSE IF g > 40 THEN 5
    ELSE 8
GetRecommendedConcurrency(g) ==
    IF g >= 80 THEN 2
    ELSE IF g >= 60 THEN 3
    ELSE IF g >= 40 THEN 5
    ELSE 8

ConcurrencyInit ==
    /\ usage_by_account = [k \in Keys |-> NoSnapshot]
    /\ global_usage \in 0..MaxUsagePct
    /\ lock = NoClient
    /\ sleeps_on = [k \in Keys |-> 0]
    /\ ClientIdle
    /\ ParseIdle
    /\ UpsertIdle
    /\ SyncIdle
    /\ EnrichIdle
    /\ PagingIdle
    /\ JobsIdle
    /\ BackoffIdle

Recommend ==
    /\ recommended = 0
    /\ recommended' = GetRecommendedConcurrency(global_usage)
    /\ UNCHANGED <<jobs, task, n_job_requests, last_response, restOfJobs>>

SpecConcurrency == ConcurrencyInit /\ [][Recommend]_vars

\* C27: the call returns 2 from 80 up, 3 from 60 up, 5 from 40 up and 8
\* below 40, according to global_usage alone, and leaves the monitor as it was.
C27_RecommendedConcurrency ==
    [][recommended' # recommended =>
          /\ global_usage >= 80 => recommended' = 2
          /\ (global_usage >= 60 /\ global_usage < 80) => recommended' = 3
          /\ (global_usage >= 40 /\ global_usage < 60) => recommended' = 5
          /\ global_usage < 40 => recommended' = 8
          /\ UNCHANGED monitorVars]_vars

C27_Witness ==
    /\ recommended = 3
    /\ global_usage = 60

(***************************************************************************)
(* Order of the throttle check, the request and the parse inside           *)
(* _request_with_retry.                                                    *)
(***************************************************************************)
StatusOutcomes == {"2xx", "4xx", "429", "5xx"}

\* The step in which coroutine p receives a response and classifies it.
Classifies(p) ==
    /\ pc[p] = "request"
    /\ pc'[p] # "request"
    /\ last_outcome'[p] \in StatusOutcomes \cup {"TypeError"}

\* The step in which the check_and_throttle call of p reads the stored usage.
Checks(p) ==
    /\ pc[p] \in {"idle", "backoff", "lock_wait"}
    /\ pc'[p] \in {"sleeping", "request"}

\* C26: every attempt is preceded by exactly one check_and_throttle call for the
\* call's key, every response is handed to parse_headers for that key in the
\* step that classifies it, and the check decides on what is stored then.
C26_CheckRequestParse ==
    [][\A p \in Clients :
          /\ n_requests'[p] # n_requests[p] =>
                /\ n_requests'[p] = n_requests[p] + 1
                /\ n_requests'[p] = attempt'[p]
                /\ n_checks'[p] = attempt'[p]
          /\ n_checks'[p] # n_checks[p] =>
                /\ n_checks'[p] = n_checks[p] + 1
                /\ n_requests[p] = n_checks[p]
          /\ Classifies(p) =>
                /\ n_parsed'[p] = n_parsed[p] + 1
                /\ \E h \in ClientHeaders : StoreParse(req[p].account_id, h)
          /\ Checks(p) =>
                (pc'[p] = "sleeping" <=> usage_by_account[req'[p].account_id].should_pause)
      ]_vars

\* The second attempt of the only call made so far sleeps on the pause that the
\* response to its first attempt stored.
C26_Witness ==
    \E p \in Clients :
        /\ \A q \in Clients \ {p} : pc[q] = "idle"
        /\ attempt[p] = 2
        /\ n_checks[p] = 2
        /\ n_parsed[p] = 1
        /\ n_requests[p] = 1
        /\ last_outcome[p] \in {"429", "5xx"}
        /\ pc[p] = "sleeping"

(***************************************************************************)
(* The refresh jobs of one tenant: trigger_refresh,                        *)
(* refresh_tenant_accounts and the _run_refresh_job background tasks       *)
(* (routers/accounts.py).  A handler has no suspension point, so it is one *)
(* step of the event loop; a background task is suspended once, on         *)
(* sync_account_data.                                                      *)
(***************************************************************************)
MaxJobs == 4            \* RefreshJob rows created
MaxJobRequests == 4     \* requests handled
MaxSlots == 2           \* largest available_slots drawn

\* The tenant's ad accounts, in the order the select returns them, and an
\* account of another tenant.
AccountList == <<"act_1", "act_2">>
Accounts == {AccountList[i] : i \in DOMAIN AccountList}
ForeignAccount == "act_9"

\* What can_api_proceed(db) may return: (can_proceed, available_slots).
CanApiProceedResults == BOOLEAN \X (0..MaxSlots)

\* What sync_account_data can raise, all subclasses of Exception.
RunExceptions == {"RefreshError", "TypeError"}

\* RefreshJob.status.in_([JobStatus.QUEUED, JobStatus.RUNNING])
ActiveStatusesMutant == {"RUNNING"}
ActiveStatuses == {"QUEUED", "RUNNING"}

ActiveJobs(a) ==
    {j \in DOMAIN jobs : jobs[j].account = a /\ jobs[j].status \in ActiveStatuses}

\* RefreshJob(tenant_id, ad_account_id, status = QUEUED), created by request r.
NewJob(a, r) == [account |-> a, status |-> "QUEUED", error |-> "", request |-> r]

Response(kind, a, id, already, launched) ==
    [kind |-> kind, account |-> a, job_id |-> id,
     already_processing |-> already, jobs_launched |-> launched]

\* POST /refresh/{fb_account_id}
TriggerRefresh(a) ==
    /\ n_job_requests < MaxJobRequests
    /\ n_job_requests' = n_job_requests + 1
    /\ LET existing == ActiveJobs(a) IN
       IF a \notin Accounts
       THEN /\ last_response' = Response("404", a, 0, FALSE, 0)
            /\ UNCHANGED <<jobs, task>>
       ELSE IF Cardinality(existing) > 1
       THEN /\ last_response' = Response("MultipleResultsFound", a, 0, FALSE, 0)
            /\ UNCHANGED <<jobs, task>>
       ELSE IF existing # {}
       THEN /\ last_response' =
                   Response("processing", a, CHOOSE j \in existing : TRUE, TRUE, 0)
            /\ UNCHANGED <<jobs, task>>
       ELSE /\ Len(jobs) < MaxJobs
            /\ jobs' = Append(jobs, NewJob(a, n_job_requests + 1))
            /\ task' = Append(task, "pending")
            /\ last_response' = Response("processing", a, Len(jobs) + 1, FALSE, 1)
    /\ UNCHANGED <<recommended, restOfJobs>>

\* Accounts without an active job among the first n of the list.
FreeUpTo(n) ==
    SelectSeq(SubSeq(AccountList, 1, n), LAMBDA a : ActiveJobs(a) = {})

\* Where the loop over the accounts stops: at the first account whose select
\* raises, or at the first free account met once the slots are used up.
LoopStop(slots) ==
    LET stops == {i \in DOMAIN AccountList :
                     \/ Cardinality(ActiveJobs(AccountList[i])) > 1
                     \/ /\ ActiveJobs(AccountList[i]) = {}
                        /\ Len(FreeUpTo(i - 1)) >= slots}
    IN  IF stops = {} THEN Len(AccountList) + 1
        ELSE CHOOSE i \in stops : \A q \in stops : i <= q

\* POST /refresh-tenant-accounts
RefreshTenantAccounts(can_proceed, available_slots) ==
    /\ n_job_requests < MaxJobRequests
    /\ n_job_requests' = n_job_requests + 1
    /\ IF ~can_proceed
       THEN /\ last_response' = Response("system_busy", "", 0, FALSE, 0)
            /\ UNCHANGED <<jobs, task>>
       ELSE LET stop     == LoopStop(available_slots)
                launched == FreeUpTo(stop - 1)
                raised   == /\ stop <= Len(AccountList)
                            /\ Cardinality(ActiveJobs(AccountList[stop])) > 1
            IN  /\ Len(jobs) + Len(launched) <= MaxJobs
                /\ jobs' = jobs \o [i \in 1..Len(launched) |->
                                       NewJob(launched[i], n_job_requests + 1)]
                /\ task' = task \o [i \in 1..Len(launched) |->
                                       IF raised THEN "dropped" ELSE "pending"]
                /\ last_response' =
                       Response(IF raised THEN "MultipleResultsFound" ELSE "processing",
                                "", 0, FALSE, Len(launched))
    /\ UNCHANGED <<recommended, restOfJobs>>

\* The background tasks of one response run one after the other.
TaskMayStart(j) ==
    \A i \in 1..(j - 1) :
        jobs[i].request = jobs[j].request => task[i] \in {"returned", "raised"}

\* _run_refresh_job up to the await of sync_account_data
JobStart(j) ==
    /\ j \in DOMAIN jobs
    /\ task[j] = "pending"
    /\ TaskMayStart(j)
    /\ jobs' = [jobs EXCEPT ![j].status = "RUNNING"]
    /\ task' = [task EXCEPT ![j] = "syncing"]
    /\ UNCHANGED <<recommended, n_job_requests, last_response, restOfJobs>>

\* The status _run_refresh_job commits once the run has ended in `outcome`.
StatusAfterRunMutant(outcome) ==
    IF outcome = "returned" THEN "OK"
    ELSE IF outcome = "RefreshError" THEN "ERROR"
    ELSE "RUNNING"
StatusAfterRun(outcome) ==
    IF outcome = "returned" THEN "OK" ELSE "ERROR"

\* sync_account_data returns or raises, and _run_refresh_job runs to its end.
RunEnds(j, outcome) ==
    /\ j \in DOMAIN jobs
    /\ task[j] = "syncing"
    /\ jobs' = [jobs EXCEPT ![j].status = StatusAfterRun(outcome),
                            ![j].error = IF outcome = "returned" THEN "" ELSE outcome]
    /\ task' = [task EXCEPT ![j] = IF outcome = "returned" THEN "returned" ELSE "raised"]
    /\ UNCHANGED <<recommended, n_job_requests, last_response, restOfJobs>>

JobsInit ==
    /\ MonitorInit
    /\ ClientIdle
    /\ ParseIdle
    /\ UpsertIdle
    /\ SyncIdle
    /\ EnrichIdle
    /\ PagingIdle
    /\ JobsIdle
    /\ BackoffIdle

JobsNext ==
    \/ \E a \in Accounts \cup {ForeignAccount} : TriggerRefresh(a)
    \/ \E r \in CanApiProceedResults : RefreshTenantAccounts(r[1], r[2])
    \/ \E j \in 1..MaxJobs : JobStart(j)
    \/ \E j \in 1..MaxJobs, outcome \in {"returned"} \cup RunExceptions : RunEnds(j, outcome)

SpecJobs == JobsInit /\ [][JobsNext]_vars

\* A run that was started terminates: it returns or it raises.
SpecJobsFair ==
    /\ SpecJobs
    /\ \A j \in 1..MaxJobs :
          WF_vars(\E outcome \in {"returned"} \cup RunExceptions : RunEnds(j, outcome))

\* C28: an account never has two jobs QUEUED or RUNNING nor two runs in
\* flight, and a trigger for an account that has such a job creates no job and
\* answers with that job's id and already_processing = true.
C28_OneActiveJobPerAccount ==
    /\ [](\A a \in Accounts :
             /\ Cardinality(ActiveJobs(a)) <= 1
             /\ Cardinality({j \in DOMAIN jobs :
                                jobs[j].account = a /\ task[j] = "syncing"}) <= 1)
    /\ [][(n_job_requests' # n_job_requests /\ last_response'.account \in Accounts) =>
             IF ActiveJobs(last_response'.account) # {}
             THEN /\ jobs' = jobs
                  /\ last_response'.kind = "processing"
                  /\ last_response'.already_processing
                  /\ last_response'.job_id \in ActiveJobs(last_response'.account)
             ELSE /\ ~last_response'.already_processing
                  /\ Len(jobs') = Len(jobs) + 1
                  /\ last_response'.job_id = Len(jobs')]_vars

\* A second trigger for an account whose job is running got that job's id.
C28_Witness ==
    /\ last_response.kind = "processing"
    /\ last_response.already_processing
    /\ Len(jobs) >= 1
    /\ last_response.job_id = 1
    /\ jobs[1].status = "RUNNING"
    /\ jobs[1].account = last_response.account
    /\ \E j \in DOMAIN jobs : jobs[j].status \in {"OK", "ERROR"}

\* The status of job j, "none" before the job exists.
StatusOf(j) == IF j \in DOMAIN jobs THEN jobs[j].status ELSE "none"

\* C29: a job is created QUEUED and its status only moves QUEUED -> RUNNING ->
\* OK or ERROR; it is RUNNING while the run is in flight, OK exactly when the
\* run returned, ERROR with the error text exactly when the run raised; OK and
\* ERROR are final, and a RUNNING job whose run ends reaches OK or ERROR.
C29_JobLifecycle ==
    /\ [](\A j \in DOMAIN jobs :
             /\ jobs[j].status = "QUEUED" <=> task[j] \in {"pending", "dropped"}
             /\ task[j] = "syncing" => jobs[j].status = "RUNNING"
             /\ jobs[j].status = "OK" <=> task[j] = "returned"
             /\ task[j] = "raised" => jobs[j].status = "ERROR"
             /\ jobs[j].status = "ERROR" =>
                   (task[j] = "raised" /\ jobs[j].error \in RunExceptions))
    /\ [][\A j \in DOMAIN jobs' :
             IF j \in DOMAIN jobs
             THEN \/ jobs'[j].status = jobs[j].status
                  \/ jobs[j].status = "QUEUED" /\ jobs'[j].status = "RUNNING"
                  \/ jobs[j].status = "RUNNING" /\ jobs'[j].status \in {"OK", "ERROR"}
             ELSE jobs'[j].status = "QUEUED"]_vars
    /\ \A j \in 1..MaxJobs :
          (StatusOf(j) = "RUNNING") ~> (StatusOf(j) \in {"OK", "ERROR"})

\* One job ended OK, another ended ERROR on an exception that is not a
\* RefreshError, a third is running.
C29_Witness ==
    /\ \E j \in DOMAIN jobs : jobs[j].status = "OK"
    /\ \E j \in DOMAIN jobs : jobs[j].status = "ERROR" /\ jobs[j].error = "TypeError"
    /\ \E j \in DOMAIN jobs : jobs[j].status = "RUNNING"

(***************************************************************************)
(* What a successful sync_account_data run returns (refresher.py 417-425). *)
(***************************************************************************)
\* The keys of the returned dict.
ReturnKeys ==
    {"status", "ad_account_id", "refresh_mode", "days_fetched", "unique_ads",
     "files_written", "refreshed_at", "date_range"}

\* The keys under which the code names a number of rows: 'ads_fetched' in the
\* docstring of sync_account_data, 'total_daily_rows' in the stored metadata.
RecordCountKeys == {"ads_fetched", "total_daily_rows"}

\* The returned values that the state of the run decides.
ReturnValue ==
    [status |-> "success", refresh_mode |-> refresh_mode,
     days_fetched |-> days_to_fetch, files_written |-> files_written]

Succeeded == sync_pc = "done" /\ sync_error = ""

\* The returned dict and the stored metadata agree on the mode and the window,
\* the metadata counts the stored rows, the five names are returned in write order.
OutcomeMatchesStore ==
    /\ ReturnValue.refresh_mode = store.raw.metadata.mode
    /\ ReturnValue.days_fetched = store.raw.metadata.days_fetched
    /\ store.raw.metadata.total_daily_rows = Len(store.raw.daily_ads)
    /\ store.raw.metadata.reference_date = ReferenceDate(today)
    /\ store.raw.daily_ads = all_daily_ads
    /\ ReturnValue.files_written = WriteOrder

\* C30 (as stated): a successful run returns the mode, the window, the number
\* of rows it persisted, the five names in write order, and the stored
\* metadata carries the same mode, window, count and reference date.
C30_OutcomeReportsRun ==
    Succeeded => (OutcomeMatchesStore /\ ReturnKeys \cap RecordCountKeys # {})

(***************************************************************************)
(* Timeouts, successes after retries and the backoff delays of             *)
(* _request_with_retry.                                                    *)
(***************************************************************************)
\* What httpx raises when the connect or the read timeout of lines 236-241 expires.
Timeouts == {"ConnectTimeout", "ReadTimeout"}

\* C31 (as stated): an attempt that ended in a connect or a read timeout is
\* followed by a backoff sleep and another attempt, or, when it was the last
\* one, by a MetaAPIError.
C31_TimeoutsLike5xx ==
    \A p \in Clients :
        (last_outcome[p] \in Timeouts /\ pc[p] = "done") =>
            /\ result[p] = "MetaAPIError"
            /\ attempt[p] = req[p].attempts

\* C32 (as stated): a call whose latest attempt received a success response
\* has returned the payload, after as many requests as attempts and one
\* backoff sleep fewer, within its budget of attempts.
C32_SuccessEndsCall ==
    \A p \in Clients :
        (last_status[p] # 0 /\ ~RaisesForStatus(last_status[p])) =>
            /\ pc[p] = "done"
            /\ result[p] = "ok"
            /\ n_requests[p] = attempt[p]
            /\ n_backoffs[p] = attempt[p] - 1
            /\ attempt[p] <= req[p].attempts

(***************************************************************************)
(* The delays of lines 275-277, in milliseconds, over a call whose         *)
(* attempts all end in a failure that the except clause catches.           *)
(***************************************************************************)
DefaultAttempts == 4
DefaultBaseDelay == 400
JitterRange == 200      \* random.random() * 0.2 lies in [0, 0.2)

BaseDelays == {0, 100, DefaultBaseDelay, 1000}
Jitters == {0, 1, 100, JitterRange - 1}

Pow2(n) == IF n = 0 THEN 1 ELSE 2 ^ n

\* delay = base_delay * (2 ** (attempt - 1)) + random.random() * 0.2
BackoffDelayMutant(base, k, jitter) == base * k + jitter
BackoffDelay(base, k, jitter) == base * Pow2(k - 1) + jitter

BackoffInit ==
    /\ MonitorInit
    /\ ClientIdle
    /\ ParseIdle
    /\ UpsertIdle
    /\ SyncIdle
    /\ EnrichIdle
    /\ PagingIdle
    /\ JobsIdle
    /\ base_delay \in BaseDelays
    /\ backoff_attempts \in 1..DefaultAttempts
    /\ backoff_attempt = 1
    /\ delays = <<>>

\* A failed attempt that is not the last one: the sleep, then the next iteration.
FailedAttempt(jitter) ==
    /\ backoff_attempt < backoff_attempts
    /\ delays' = Append(delays, BackoffDelay(base_delay, backoff_attempt, jitter))
    /\ backoff_attempt' = backoff_attempt + 1
    /\ UNCHANGED <<base_delay, backoff_attempts, restOfBackoff>>

BackoffNext == \E jitter \in Jitters : FailedAttempt(jitter)

SpecBackoff == BackoffInit /\ [][BackoffNext]_vars

\* C33: the sleep after failed attempt k lasts between base_delay * 2^(k-1) and
\* that plus 0.2 s; with the defaults the three sleeps lie in 400..600, 800..1000
\* and 1600..1800 ms, and each is longer than the one before.
C33_BackoffDelays ==
    /\ Len(delays) = backoff_attempt - 1
    /\ \A k \in DOMAIN delays :
          /\ delays[k] >= base_delay * Pow2(k - 1)
          /\ delays[k] <= base_delay * Pow2(k - 1) + JitterRange
    /\ (base_delay = DefaultBaseDelay /\ backoff_attempts = DefaultAttempts) =>
          /\ Len(delays) >= 1 => (delays[1] >= 400 /\ delays[1] <= 600)
          /\ Len(delays) >= 2 => (delays[2] >= 800 /\ delays[2] <= 1000)
          /\ Len(delays) >= 3 => (delays[3] >= 1600 /\ delays[3] <= 1800)
          /\ \A k \in DOMAIN delays : k > 1 => delays[k] > delays[k - 1]

\* The default call after its three sleeps, the first with the largest jitter
\* and the second with none.
C33_Witness ==
    /\ base_delay = DefaultBaseDelay
    /\ backoff_attempts = DefaultAttempts
    /\ Len(delays) = 3
    /\ delays[1] = 599
    /\ delays[2] = 800

(***************************************************************************)
(* Order of the sub-fetches of a chunked fetch.                            *)
(***************************************************************************)
\* The step issues a get_insights_daily call.
IssuesInsightsCall ==
    /\ Len(calls') = Len(calls) + 1
    /\ IsInsightsCall(calls'[Len(calls')])
    /\ SubSeq(calls', 1, Len(calls)) = calls

\* C34: a sub-fetch is issued only while the run is fetching, for the window
\* that starts the day after the previous sub-window ended; when it returns
\* its rows are appended after those already fetched, and when it raises the
\* run has failed with the rows as they were, so no later sub-fetch is issued.
C34_ChunksInOrder ==
    [][IssuesInsightsCall =>
          LET before == InsightsCalls
              new    == calls'[Len(calls')]
          IN  /\ sync_pc = "fetch" /\ sync_error = ""
              /\ before # <<>> =>
                    ToOrdinal(new.since) = ToOrdinal(before[Len(before)].until) + 1
              /\ IF sync_error' = ""
                 THEN /\ Len(daily_insights') >= Len(daily_insights)
                      /\ SubSeq(daily_insights', 1, Len(daily_insights)) = daily_insights
                 ELSE /\ sync_pc' = "failed"
                      /\ daily_insights' = daily_insights]_vars

\* The second of three sub-fetches raised after the first had returned rows.
C34_Witness ==
    /\ sync_pc = "failed"
    /\ sync_error = "RefreshError: Meta API error"
    /\ days_to_fetch = 90
    /\ Len(InsightsCalls) = 2
    /\ Len(daily_insights) >= 1

(***************************************************************************)
(* What a TAIL run keeps of the prior dataset and of the fetched rows.     *)
(***************************************************************************)
InSeq(x, seq) == \E i \in 1..Len(seq) : seq[i] = x
KeysOf(ads) == {AdKey(ads[i]) : i \in {j \in 1..Len(ads) : HasKey(ads[j])}}

\* The row's date is on or after the reference date minus 90 days.
InRetention(ad, ref) == ToOrdinal(AdDate(ad)) >= ToOrdinal(ref) - BASELINE_DAYS

TailPersisted == refresh_mode = "TAIL" /\ RawWritten

\* C35 (as stated): a TAIL run persists every keyed prior row inside the
\* retention window whose key was not fetched, and every keyed fetched row
\* inside the window.
C35_EveryRowSurvives ==
    TailPersisted =>
        LET prior   == existing_baseline.daily_ads
            fetched == daily_insights
            ref     == ReferenceDate(today)
        IN  /\ \A i \in 1..Len(prior) :
                   (HasKey(prior[i]) /\ AdKey(prior[i]) \notin KeysOf(fetched)
                        /\ InRetention(prior[i], ref))
                       => InSeq(prior[i], store.raw.daily_ads)
            /\ \A i \in 1..Len(fetched) :
                   (HasKey(fetched[i]) /\ InRetention(fetched[i], ref))
                       => InSeq(fetched[i], store.raw.daily_ads)

\* C35 (amended): the same of the rows that are the last with their key in
\* their list.
C35_LastRowsSurvive ==
    TailPersisted =>
        LET prior   == existing_baseline.daily_ads
            fetched == daily_insights
            ref     == ReferenceDate(today)
        IN  /\ \A i \in 1..Len(prior) :
                   (IsLastWithKey(prior, i) /\ AdKey(prior[i]) \notin KeysOf(fetched)
                        /\ InRetention(prior[i], ref))
                       => InSeq(prior[i], store.raw.daily_ads)
            /\ \A i \in 1..Len(fetched) :
                   (IsLastWithKey(fetched, i) /\ InRetention(fetched[i], ref))
                       => InSeq(fetched[i], store.raw.daily_ads)

\* A TAIL run that fetched a new key kept the prior row of another key, which
\* had a twin with the same key before it, and added the fetched one.
C35_Witness ==
    /\ TailPersisted
    /\ daily_insights = <<Ad("a3", Date(2024, 4, 1), NoDate, 20)>>
    /\ InSeq(Ad("a1", Date(2024, 4, 1), NoDate, 10), existing_baseline.daily_ads)
    /\ InSeq(Ad("a1", Date(2024, 4, 1), NoDate, 15), store.raw.daily_ads)
    /\ InSeq(Ad("a3", Date(2024, 4, 1), NoDate, 20), store.raw.daily_ads)
    /\ ~InSeq(Ad("a1", Date(2024, 4, 1), NoDate, 10), store.raw.daily_ads)

(***************************************************************************)
(* The mode of a run after the run before it.                              *)
(***************************************************************************)
\* The step starts a run that gets as far as choosing its mode.
StartsRun == run_no' = run_no + 1 /\ refresh_mode' # ""

\* The run that has just ended chose a mode and failed before writing the raw dataset.
FailedBeforeWrite == sync_pc = "failed" /\ files_written = <<>> /\ refresh_mode # ""

\* The stored dataset has a reference date that parses.
StoredDate(raw) ==
    /\ LoadExistingBaseline(raw).kind # "none"
    /\ raw.metadata.reference_date \notin {NoDate, BadDate}

NotEarlier(ref, raw) == ToOrdinal(ref) >= ToOrdinal(raw.metadata.reference_date)

\* A run that wrote the raw dataset stored its own reference date, and a run
\* that has not written it has left it as it was.
RawFollowsRun ==
    /\ RawWritten =>
          (StoredDate(store.raw) /\ store.raw.metadata.reference_date = ReferenceDate(today))
    /\ (sync_pc # "idle" /\ ~RawWritten) => store.raw = store_before.raw

\* The run after one that wrote the raw dataset, on a reference date not
\* earlier than the stored one, is a TAIL run of 3 days.
TailAfterWrite ==
    (StartsRun /\ RawWritten /\ NotEarlier(ReferenceDate(today'), store.raw)) =>
        (refresh_mode' = "TAIL" /\ days_to_fetch' = TAIL_BACKFILL_DAYS)

\* C36 (as stated): after a run that wrote the raw dataset a later run on a
\* reference date not earlier than the stored one selects TAIL, and the run
\* after one that failed before the raw write selects the mode that one selected.
C36_ModeAfterRun ==
    /\ []RawFollowsRun
    /\ [][/\ TailAfterWrite
          /\ (StartsRun /\ FailedBeforeWrite) => refresh_mode' = refresh_mode]_vars

\* C36 (amended): the run after one that failed before the raw write selects
\* the mode that one selected when both reference dates are on the same side
\* of the stored reference date, or no such date is stored.
C36_ModeAfterRunSameSide ==
    /\ []RawFollowsRun
    /\ [][/\ TailAfterWrite
          /\ (StartsRun /\ FailedBeforeWrite
                /\ (StoredDate(store.raw) =>
                       (NotEarlier(ReferenceDate(today), store.raw)
                           <=> NotEarlier(ReferenceDate(today'), store.raw))))
                => refresh_mode' = refresh_mode]_vars

\* The second run is a TAIL run on the empty dataset that the first run, a
\* BASELINE run that failed after the raw write, stored.
C36_Witness ==
    /\ run_no = 2
    /\ sync_pc = "fetch"
    /\ refresh_mode = "TAIL"
    /\ store.raw = BaselineData(Date(2024, 4, 1), "BASELINE", 90, <<>>)
    /\ store.manifest = 0

(***************************************************************************)
(* global_usage and the recommended concurrency over a sequence of parses. *)
(***************************************************************************)
\* C37: global_usage never goes down and is at least the usage_percent of every
\* stored snapshot, so get_recommended_concurrency never returns more than it
\* would have returned before.
C37_GlobalNeverDecreases ==
    /\ [](\A k \in Stored(usage_by_account) :
             global_usage >= usage_by_account[k].usage_percent)
    /\ [][/\ global_usage' >= global_usage
          /\ GetRecommendedConcurrency(global_usage')
                 <= GetRecommendedConcurrency(global_usage)]_vars

\* A later response reported 50 % on a monitor that had seen 80 % or more: the
\* recommendation stays at 2 where the latest snapshot alone would give 5.
C37_Witness ==
    /\ n_parses >= 2
    /\ parse_out = "returned"
    /\ Snap.usage_percent = 50
    /\ global_usage >= 80
    /\ GetRecommendedConcurrency(global_usage) = 2
    /\ GetRecommendedConcurrency(Snap.usage_percent) = 5

(***************************************************************************)
(* A pause signal stored while a coroutine sleeps, and the process-wide    *)
(* lock.                                                                   *)
(***************************************************************************)
\* The step in which the pause sleep of coroutine p ends.
Wakes(p) == pc[p] = "sleeping" /\ pc'[p] # "sleeping"

\* C38: a snapshot stored under k while a coroutine sleeps on k is left as it
\* is when the sleeper wakes, pause signal included, no pause having been taken
\* on it; and a check of k that finds a pause signal sleeps on it.
C38_SignalNotLost ==
    [][\A p \in Clients :
          LET k == req[p].account_id IN
          /\ (Wakes(p) /\ ~held[p]) =>
                /\ usage_by_account' = usage_by_account
                /\ sleeps_on'[k] = 0
          /\ (Wakes(p) /\ held[p]) =>
                usage_by_account' = [usage_by_account EXCEPT ![k].should_pause = FALSE]
          /\ (Checks(p) /\ usage_by_account[req'[p].account_id].should_pause) =>
                /\ pc'[p] = "sleeping"
                /\ sleeps_on'[req'[p].account_id] = sleeps_on[req'[p].account_id] + 1
      ]_vars

\* Coroutine p has slept and sent its request; the dict it slept on had been
\* replaced during the sleep, the signal of the new one is still there and
\* coroutine q is now sleeping on it.
C38_Witness ==
    \E p, q \in Clients :
        /\ p # q
        /\ req[p].account_id = req[q].account_id
        /\ pc[p] = "request" /\ throttled[p] /\ ~held[p]
        /\ pc[q] = "sleeping" /\ held[q]
        /\ n_parsed[q] = 1 /\ n_parsed[p] = 1
        /\ usage_by_account[req[q].account_id].should_pause
        /\ sleeps_on[req[q].account_id] = 1

\* C39: the coroutine that sleeps holds the lock; while it sleeps no other
\* coroutine gets through check_and_throttle, whatever its key; a coroutine
\* that waited for the lock and finds no pause signal under its key then
\* sends its request without sleeping, False being returned.
C39_OneLockForAllKeys ==
    /\ [](\A p \in Clients : pc[p] = "sleeping" => lock = p)
    /\ [][\A p, q \in Clients :
             /\ (p # q /\ pc[p] = "sleeping" /\ pc'[p] = "sleeping") =>
                   (~Checks(q) /\ n_requests'[q] = n_requests[q])
             /\ (pc[q] = "lock_wait" /\ Checks(q)
                    /\ ~usage_by_account[req[q].account_id].should_pause) =>
                   /\ lock = NoClient
                   /\ pc'[q] = "request"
                   /\ ~throttled'[q]
                   /\ sleeps_on' = sleeps_on]_vars

\* A coroutine waits for the lock with a key that has no pause signal while
\* another sleeps on a different key.
C39_Witness ==
    \E p, q \in Clients :
        /\ req[p].account_id # req[q].account_id
        /\ pc[p] = "sleeping"
        /\ pc[q] = "lock_wait"
        /\ ~usage_by_account[req[q].account_id].should_pause
        /\ n_requests[q] = 0

====
